---------------------------- MODULE Spec2Model ----------------------------
(***************************************************************************)
(* Model of the repair orchestrator (backend/app/docker_runner.py), its    *)
(* version-control adapter (backend/app/git_utils.py) and the sandbox      *)
(* service it calls in remote mode (backend/docker/agent_server.py).        *)
(*                                                                         *)
(* Spec is a whole run of DockerRunner.run.  SpecGit is GitHandler alone:  *)
(* clone_repo step by step, then create_branch on a repository with real    *)
(* branches.  SpecName is the branch name of create_branch for every team   *)
(* and leader name of at most MaxNameLen characters.  SpecHB is             *)
(* the local branch of _run_tests with its heartbeat thread, every          *)
(* interleaving of the two, for up to MaxCalls consecutive calls.           *)
(* SpecSandbox is one request to the sandbox service.  SpecFix is          *)
(* FixEngine.apply_fix (backend/app/fixer.py) called twice with one record *)
(* on a file of at most MaxFileLines lines.  SpecIter is the fix loop of   *)
(* one iteration: two records of one classification dispatched and         *)
(* committed in order on the same checkout.                                *)
(*                                                                         *)
(* In the run and in the branch names, text is a sequence of tokens: the   *)
(* empty string is <<>>, concatenation is \o, and "\n" is a token of its   *)
(* own.  In the fixer, source lines and messages are strings, character by *)
(* character, and the rules are computed on them as the code computes them. *)
(***************************************************************************)
EXTENDS Integers, Sequences, FiniteSets, TLC

\* Largest fix budget (max_retries) the model explores.
MaxRetriesBound == 2

\* Longest team and leader name SpecName draws.
MaxNameLen == 3

\* Most local test executions in a row in SpecHB.
MaxCalls == 2

\* Most lines of the file SpecFix hands to the fixer.
MaxFileLines == 2

None == "None"

\* A local variable of run that holds text or a list and is not yet bound.
Unbound == <<"unbound">>

VARIABLES
    pc,             \* position of DockerRunner.run
    max_retries,    \* self.max_retries
    sandbox,        \* self.sandbox_url is non-empty (remote-sandbox mode)
    ws,             \* self.ws_manager and self.run_id are both set
    sinkFaulty,     \* the sink's send_progress_sync can raise (given a sink)
    progress,       \* the calls of _emit_progress so far, <<status, message>>
    repo,           \* git_handler.repo is set
    project_type,   \* self.project_type
    venv_python,    \* self.venv_python is set
    branch_name,    \* the local branch_name of run (and self.branch_name)
    iteration,      \* values the range(max_retries) iterator has handed out
    iterations,     \* self.iterations
    total_failures, \* self.total_failures
    fixes,          \* self.fixes
    test_output,    \* local test_output of run
    errors,         \* local errors of run
    errIdx,         \* position of "for error in errors"
    fixed_count,    \* local fixed_count of run (-1: not yet bound)
    commits,        \* commit messages of the commits the run created, in order
    pushes,         \* pushes attempted: [at, result, n]
    testRuns,       \* test executions started
    testOutcome,    \* how the latest test execution ended
    faults,         \* the kinds of failure the collaborators have produced
    raised,         \* the exception run() raised to its caller, or None
    response        \* the AgentResponse run() returned, or None

\* GitHandler on its own (SpecGit, SpecName).
VARIABLES
    gPc,            \* position in clone_repo / create_branch
    gTeam,          \* the team name, a sequence of characters
    gLeader,        \* the leader name
    gPath,          \* what is at repo_path: "absent", "stale" or "fresh"
    gAttempt,       \* "attempt" of the rmtree loop
    gRmCalls,       \* calls of shutil.rmtree
    gCloneCalls,    \* the state of repo_path at each call of Repo.clone_from
    gRepo,          \* self.repo is set
    gBranches,      \* local branches of the clone
    gRemote,        \* branches of origin
    gHead,          \* the branch checked out
    gCheckouts,     \* how each "git checkout" of create_branch ended
    gReturned,      \* what create_branch returned, or None
    gRaised         \* what GitHandler raised, or None

\* The local branch of _run_tests and its heartbeat threads (SpecHB).
VARIABLES
    hbMain,         \* position of the main thread in _run_tests
    hbCall,         \* number of the current call of _run_tests (0: none yet)
    hbExit,         \* how each call ended: "running", "returned", "raised"
    hbFlag,         \* process_running['status'] of each call
    hbThread,       \* position of each call's send_progress_updates thread
    hbElapsed,      \* "elapsed" of each thread
    hbSent,         \* heartbeat notifications each thread has emitted
    hbLate          \* those emitted after the thread's call had ended

\* One request to the sandbox service's run_tests (SpecSandbox).
VARIABLES
    sbPc,           \* position in run_tests of agent_server.py
    sbSecret,       \* SANDBOX_TOKEN of the service ("" when not configured)
    sbHeader,       \* the request's X-Sandbox-Token header, or None
    sbBranch,       \* req.branch, or None
    sbCmds,         \* the commands _run_cmd has been called with, in order
    sbRepo,         \* repo_path after the clone: None, "cloned" or "absent"
    sbProject,      \* project_type
    sbResp          \* the HTTP answer, or None

\* FixEngine.apply_fix on a repository of two files (SpecFix).
VARIABLES
    fxFiles,        \* the files of the repository, by path
    fxError,        \* the ErrorInfo dispatched
    fxHist,         \* the contents before each call of apply_fix
    fxRet           \* what each call of apply_fix returned

\* The fix loop of one iteration on a checkout with its index (SpecIter).
VARIABLES
    itErrors,       \* errors: the records of the iteration's classification
    itIdx,          \* position of "for error in errors"
    itIndex,        \* the git index: the staged contents, by path
    itLog,          \* the commits of the branch, oldest first
    itFixes         \* self.fixes

runvars == <<pc, max_retries, sandbox, ws, sinkFaulty, progress, repo,
             project_type, venv_python, branch_name, iteration, iterations,
             total_failures, fixes, test_output, errors, errIdx, fixed_count,
             commits, pushes, testRuns, testOutcome, faults, raised, response>>

gitvars == <<gPc, gTeam, gLeader, gPath, gAttempt, gRmCalls, gCloneCalls,
             gRepo, gBranches, gRemote, gHead, gCheckouts, gReturned, gRaised>>

hbvars == <<hbMain, hbCall, hbExit, hbFlag, hbThread, hbElapsed, hbSent,
            hbLate>>

sbvars == <<sbPc, sbSecret, sbHeader, sbBranch, sbCmds, sbRepo, sbProject,
            sbResp>>

fixvars == <<fxFiles, fxError, fxHist, fxRet>>

itvars == <<itErrors, itIdx, itIndex, itLog, itFixes>>

\* The groups no specification before SpecSandbox uses.
auxvars == <<sbvars, fixvars, itvars>>

vars == <<runvars, gitvars, hbvars, auxvars>>

-----------------------------------------------------------------------------
(* Diagnostics the test runner can print, and the FailureRecord each one    *)
(* classifies to.                                                           *)

DiagA == "app.py:3: SyntaxError: invalid syntax"
DiagB == "util.py:0: F401 unused import"

ErrorOf(d) ==
    IF d = DiagA
    THEN [type |-> "SYNTAX", file |-> <<"src", "app.py">>, line |-> 3,
          message |-> "invalid syntax"]
    ELSE [type |-> "LINTING", file |-> <<"util.py">>, line |-> 0,
          message |-> "unused import"]

\* The values of ErrorType that apply_fix dispatches on.
ErrorTypes == {"SYNTAX", "INDENTATION", "TYPE_ERROR", "IMPORT", "LOGIC",
               "LINTING"}

Recognised(tok) == tok \in {DiagA, DiagB}

\* ErrorParser.parse_errors: the recognised diagnostics, in output order.
parse_errors(text) ==
    LET sel == SelectSeq(text, Recognised)
    IN  [i \in 1..Len(sel) |-> ErrorOf(sel[i])]

\* os.path.basename of a path given as its components.
basename(path) == IF path = <<>> THEN "" ELSE path[Len(path)]

\* What the test runner can write to stdout and to stderr.
Stdouts == {<<>>, <<DiagA>>}
Stderrs == {<<>>, <<DiagB>>}

-----------------------------------------------------------------------------
(* DockerRunner._emit_progress: one call per element of evs.                *)

Ev(status, message) == <<status, message>>

\* What the progress sink has received: nothing when no sink is configured.
SinkLog == IF ws THEN progress ELSE <<>>

-----------------------------------------------------------------------------
(* GitHandler (git_utils.py).                                               *)

max_attempts == 3

\* GitHandler.clone_repo.  exists: the target path exists; rmFails: how many
\* rmtree calls in a row raise; stillThere: the path exists after a rmtree
\* that did not raise; cloneOk: Repo.clone_from succeeds.
clone_repo(exists, rmFails, stillThere, cloneOk) ==
    LET removed  == rmFails < max_attempts
        attempts == IF ~exists THEN 0
                    ELSE IF removed THEN rmFails + 1 ELSE max_attempts
        cleanErr == exists /\ (~removed \/ stillThere)
    IN  [raised   |-> cleanErr \/ ~cloneOk,
         attempts |-> attempts,
         cloned   |-> ~cleanErr,
         repo     |-> ~cleanErr /\ cloneOk]

Whitespace == {" ", "\t", "\n"}
LowerCase == <<"a", "b", "c", "d", "e", "f", "g", "h", "i", "j", "k", "l", "m",
               "n", "o", "p", "q", "r", "s", "t", "u", "v", "w", "x", "y", "z">>
UpperCase == <<"A", "B", "C", "D", "E", "F", "G", "H", "I", "J", "K", "L", "M",
               "N", "O", "P", "Q", "R", "S", "T", "U", "V", "W", "X", "Y", "Z">>

\* str.strip() on a sequence of characters.
strip(s) ==
    LET keep == {i \in 1..Len(s) : s[i] \notin Whitespace}
    IN  IF keep = {} THEN <<>>
        ELSE LET lo == CHOOSE i \in keep : \A j \in keep : i <= j
                 hi == CHOOSE i \in keep : \A j \in keep : j <= i
             IN  SubSeq(s, lo, hi)

\* str.replace(' ', '_')
replace_space(s) == [i \in 1..Len(s) |-> IF s[i] = " " THEN "_" ELSE s[i]]

upper_char(c) ==
    IF \E k \in 1..Len(LowerCase) : LowerCase[k] = c
    THEN UpperCase[CHOOSE k \in 1..Len(LowerCase) : LowerCase[k] = c]
    ELSE c

\* str.upper()
upper(s) == [i \in 1..Len(s) |-> upper_char(s[i])]

\* _format_branch_name without the strip().
format_branch_name_no_strip(team, leader) ==
    upper(replace_space(team)) \o <<"_">>
        \o upper(replace_space(leader)) \o <<"_", "A", "I", "_", "F", "I", "X">>

\* GitHandler._format_branch_name
format_branch_name(team, leader) ==
    upper(replace_space(strip(team))) \o <<"_">>
        \o upper(replace_space(strip(leader))) \o <<"_", "A", "I", "_", "F", "I", "X">>

\* The team and the leader the run was started for.
Team == <<"C", "o", "r", "e", " ", "I", "n", "f", "r", "a">>
Leader == <<"a", "n", "a", " ", "l", "e", "e">>

\* f"{branch_name}_{int(time.time())}"
unique_branch(name) == name \o <<"_", "time">>

\* create_branch without its fallbacks: the first checkout decides.
create_branch_no_fallback(name, repoSet, first, second, third) ==
    IF ~repoSet THEN [raised |-> TRUE, name |-> None, calls |-> 0]
    ELSE IF first = "ok" THEN [raised |-> FALSE, name |-> name, calls |-> 1]
    ELSE [raised |-> TRUE, name |-> None, calls |-> 1]

\* GitHandler.create_branch, from the formatted name on.  Each of first,
\* second, third says how that checkout ends: "ok", "git_error"
\* (GitCommandError) or "error" (any other exception).  calls: how many
\* checkouts were made.
create_branch_named(name, repoSet, first, second, third) ==
    IF ~repoSet THEN [raised |-> TRUE, name |-> None, calls |-> 0]
    ELSE IF first = "ok" THEN [raised |-> FALSE, name |-> name, calls |-> 1]
    ELSE IF first # "git_error"
    THEN [raised |-> TRUE, name |-> None, calls |-> 1]
    ELSE IF second = "ok" THEN [raised |-> FALSE, name |-> name, calls |-> 2]
    ELSE IF second # "git_error"
    THEN [raised |-> TRUE, name |-> None, calls |-> 2]
    ELSE IF third = "ok"
    THEN [raised |-> FALSE, name |-> unique_branch(name), calls |-> 3]
    ELSE [raised |-> TRUE, name |-> None, calls |-> 3]

\* GitHandler.create_branch for the team and the leader of the run.
create_branch(repoSet, first, second, third) ==
    create_branch_named(format_branch_name(Team, Leader), repoSet,
                        first, second, third)

\* A name git accepts for a branch: no whitespace in it.
valid_ref(b) == \A i \in 1..Len(b) : b[i] \notin Whitespace

\* "git checkout -b b" (create) or "git checkout b" on a clone with the local
\* branches, the branches of origin and the head given.  env: "ok", or what
\* fails apart from the branches: "git_error" (a locked index, local changes
\* in the way: git exits non-zero) or "error" (git cannot be run at all).
git_checkout(branches, remote, head, b, create, env) ==
    LET stay(o) == [outcome |-> o, branches |-> branches, head |-> head]
        move    == [outcome |-> "ok", branches |-> branches \cup {b},
                    head |-> b]
    IN  IF env # "ok" THEN stay(env)
        ELSE IF ~valid_ref(b) THEN stay("git_error")
        ELSE IF create
        THEN IF b \in branches THEN stay("git_error") ELSE move
        ELSE IF b \in branches \cup remote THEN move ELSE stay("git_error")

\* clone_repo without the check that the directory is gone.
still_exists_unchecked(path) == FALSE

\* "Verify it's gone": "if os.path.exists(repo_path)" after the cleanup.
still_exists(path) == path # "absent"

\* "if attempt < max_attempts - 1": a failed rmtree is tried again.
retry_rmtree(attempt) == attempt < max_attempts - 1

CheckoutOutcomes == {"ok", "git_error", "error"}

\* The commit message template of commit_fix.
CommitMessage(bug_type, file_name, line) ==
    <<"[AI-AGENT] Fixed ", bug_type, " error in ", file_name, " line ", line>>

\* GitHandler.commit_fix.  outcome: "ok", "add_error" (index.add raises) or
\* "commit_error" (index.commit raises).  created: the commit exists.
commit_fix(repoSet, file_path, bug_type, line, outcome) ==
    LET msg == CommitMessage(bug_type, basename(file_path), line)
    IN  IF repoSet /\ outcome = "ok"
        THEN [raised |-> FALSE, created |-> TRUE, message |-> msg]
        ELSE [raised |-> TRUE, created |-> FALSE, message |-> None]

\* GitHandler.push_branch.  outcome: "ok", "git_error" (GitCommandError,
\* caught) or "error" (any other exception, which escapes).
push_branch(repoSet, outcome) ==
    IF ~repoSet \/ outcome = "error" THEN [raised |-> TRUE, ret |-> None]
    ELSE IF outcome = "ok" THEN [raised |-> FALSE, ret |-> TRUE]
    ELSE [raised |-> FALSE, ret |-> FALSE]

PushOutcomes == {"ok", "git_error", "error"}

-----------------------------------------------------------------------------
(* The sandbox service (agent_server.py).                                   *)

\* run_tests of the sandbox service.  authOk: _check_auth lets the request
\* pass; cloneEnd: "done" or "timeout"; testEnd: "done", "timeout" or
\* "crash" (an exception other than TimeoutExpired).
sandbox_run_tests(authOk, cloneEnd, testEnd, out, err, rc) ==
    IF ~authOk THEN [http |-> 401, data |-> None]
    ELSE IF cloneEnd = "timeout"
    THEN [http |-> 200,
          data |-> [stdout |-> <<>>, stderr |-> <<"git clone timed out">>,
                    returncode |-> 1, timed_out |-> TRUE]]
    ELSE IF testEnd = "timeout"
    THEN [http |-> 200,
          data |-> [stdout |-> <<>>, stderr |-> <<"test execution timed out">>,
                    returncode |-> 1, timed_out |-> TRUE]]
    ELSE IF testEnd = "crash" THEN [http |-> 500, data |-> None]
    ELSE [http |-> 200,
          data |-> [stdout |-> out, stderr |-> err,
                    returncode |-> rc, timed_out |-> FALSE]]

-----------------------------------------------------------------------------
(* DockerRunner (docker_runner.py).                                         *)

\* _run_tests, remote branch.  callOk: httpx.post returned a response.
run_tests_remote(callOk, resp) ==
    IF ~callOk \/ resp.http # 200
    THEN [output |-> <<>>, outcome |-> "remote_call_failed",
          events |-> <<Ev("error", "Sandbox test execution failed")>>]
    ELSE [output  |-> resp.data.stdout \o <<"\n">> \o resp.data.stderr,
          outcome |-> IF resp.data.timed_out THEN "remote_timed_out"
                      ELSE "remote_done",
          events  |-> IF resp.data.timed_out
                      THEN <<Ev("warning", "Sandbox tests timed out")>>
                      ELSE <<>>]

\* _run_tests, local branch.  end: "launch_error" (Popen raises), "exit",
\* "timeout" (communicate raises TimeoutExpired) or "timeout_error" (the
\* communicate after the kill raises).
run_tests_local(end, out, err, rc) ==
    IF end = "exit"
    THEN [output  |-> out \o <<"\n">> \o err,
          outcome |-> "local_exit",
          events  |-> IF rc = 0
                      THEN <<Ev("success", "Tests completed successfully")>>
                      ELSE <<Ev("info", "Tests completed with failures")>>]
    ELSE IF end = "timeout"
    THEN [output |-> <<>>, outcome |-> "local_timeout",
          events |-> <<Ev("warning", "Test execution timed out")>>]
    ELSE [output |-> <<>>,
          outcome |-> IF end = "timeout_error" THEN "local_timeout"
                      ELSE "local_launch_error",
          events |-> <<Ev("error", "Error running tests")>>]

FixResult(error, commit_message, status) ==
    [file |-> error.file, line |-> error.line, type |-> error.type,
     commit_message |-> commit_message, status |-> status]

\* FixEngine.apply_fix without its try/except.
apply_fix_unguarded(type, rule) ==
    IF type \in ErrorTypes
    THEN [raised |-> rule = "raise", ret |-> rule = "fixed"]
    ELSE [raised |-> FALSE, ret |-> FALSE]

\* FixEngine.apply_fix.  rule: how the rule of the record's kind ends:
\* "fixed" (it returns True), "declined" (it returns False) or "raise" (it
\* raises: missing file, line index out of range, read or write error).
apply_fix(type, rule) ==
    IF type \in ErrorTypes
    THEN IF rule = "raise" THEN [raised |-> FALSE, ret |-> FALSE]
         ELSE [raised |-> FALSE, ret |-> rule = "fixed"]
    ELSE [raised |-> FALSE, ret |-> FALSE]

RuleOutcomes == {"fixed", "declined", "raise"}

\* _apply_and_commit_fix with the outcome recorded as soon as the edit is
\* made, whether or not the commit then succeeds.
apply_and_commit_fix_eager(error, success, commitOutcome, emitOk) ==
    LET c   == commit_fix(repo, error.file, error.type, error.line, commitOutcome)
        msg == CommitMessage(error.type, basename(error.file), error.line)
    IN  IF success
        THEN [ret     |-> ~c.raised /\ emitOk,
              fixes   |-> Append(fixes, FixResult(error, msg, "Fixed")),
              commits |-> IF c.created THEN Append(commits, c.message)
                          ELSE commits,
              events  |-> <<Ev("fixing", "Fixing"), Ev("success", "Fixed")>>]
        ELSE [ret     |-> FALSE,
              fixes   |-> Append(fixes, FixResult(error, <<>>, "Failed")),
              commits |-> commits,
              events  |-> <<Ev("fixing", "Fixing")>>]

\* _apply_and_commit_fix, from the call of apply_fix on.  success: what
\* fixer.apply_fix returned; commitOutcome: how commit_fix ends; emitOk: the
\* "Fixed" progress event goes through (its failure is caught by the
\* "except Exception" around the commit).
apply_and_commit_fix(error, success, commitOutcome, emitOk) ==
    LET c == commit_fix(repo, error.file, error.type, error.line, commitOutcome)
    IN  IF success
        THEN IF ~c.raised /\ emitOk
             THEN [ret     |-> TRUE,
                   fixes   |-> Append(fixes, FixResult(error, c.message, "Fixed")),
                   commits |-> Append(commits, c.message),
                   events  |-> <<Ev("fixing", "Fixing"), Ev("success", "Fixed")>>]
             ELSE [ret     |-> FALSE,
                   fixes   |-> fixes,
                   commits |-> IF c.created THEN Append(commits, c.message)
                               ELSE commits,
                   events  |-> <<Ev("fixing", "Fixing")>>]
        ELSE [ret     |-> FALSE,
              fixes   |-> Append(fixes, FixResult(error, <<>>, "Failed")),
              commits |-> commits,
              events  |-> <<Ev("fixing", "Fixing")>>]

\* _generate_response without its "if successful_fixes == 0" override.
generate_response_no_override(branch) ==
    LET successful_fixes ==
            Cardinality({i \in DOMAIN fixes : fixes[i].status = "Fixed"})
        status == IF successful_fixes > 0 /\ successful_fixes = Len(fixes)
                  THEN "PASSED" ELSE "PARTIAL"
    IN  [branch |-> branch, total_failures |-> total_failures,
         total_fixes |-> successful_fixes, iterations |-> iterations,
         status |-> status, fixes |-> fixes]

\* _generate_response
generate_response(branch) ==
    LET successful_fixes ==
            Cardinality({i \in DOMAIN fixes : fixes[i].status = "Fixed"})
        first  == IF successful_fixes > 0 /\ successful_fixes = Len(fixes)
                  THEN "PASSED" ELSE "PARTIAL"
        status == IF successful_fixes = 0 THEN "FAILED" ELSE first
    IN  [branch |-> branch, total_failures |-> total_failures,
         total_fixes |-> successful_fixes, iterations |-> iterations,
         status |-> status, fixes |-> fixes]

\* The loop test with one iteration too many.
range_has_next_inclusive == iteration <= max_retries

\* The loop test of "for iteration in range(self.max_retries)".
range_has_next == iteration < max_retries

\* The iteration number without the "+ 1".
iteration_number_zero_based == iteration

\* "self.iterations = iteration + 1", for the value the iterator hands out.
iteration_number == iteration + 1

\* "continue" in place of the "break" after an empty classification.
after_parse_continue(errs) == IF errs = <<>> THEN "loop" ELSE "fix"

\* "if not errors: ... break": where run goes after classification.
after_parse(errs) == IF errs = <<>> THEN "final" ELSE "fix"

\* The failure count assigned before the "if not errors" test.
failures_after_parse_always(errs) == Len(errs)

\* self.total_failures after classification: "self.total_failures =
\* len(errors)" comes after the "if not errors: ... break".
failures_after_parse(errs) ==
    IF errs = <<>> THEN total_failures ELSE Len(errs)

\* The end of an iteration without the "fixed_count == 0" break.
after_fixes_no_break(count) == "loop"

\* "if fixed_count == 0: ... break": where run goes at the end of an iteration.
after_fixes(count) == IF count = 0 THEN "final" ELSE "loop"

\* "if len(self.fixes) > 0": whether run attempts the final push.
wants_final_push == Len(fixes) > 0

\* The loop without its push before the test run.
sync_before_test_never == FALSE

\* "if self.sandbox_url:" at the head of an iteration: whether the branch is
\* pushed before the test run.
sync_before_test == sandbox

\* The emissions of one step on which the sink's send raises, out of the n
\* the step can make: none unless a sink is configured and faulty.  Emissions
\* are numbered in program order.
SinkFailures(n) == IF ws /\ sinkFaulty THEN SUBSET (1..n) ELSE {{}}

\* The first of the n emissions of a path that fails, or 0.
FirstFail(sf, n) ==
    IF \E k \in sf : k <= n
    THEN CHOOSE k \in sf : k <= n /\ \A j \in sf : k <= j
    ELSE 0

\* The final push without its try/except.
final_push_unguarded(outcome, sf) ==
    LET p == push_branch(repo, outcome)
    IN  IF 1 \in sf
        THEN [raised |-> TRUE, cause |-> "sink", pushed |-> FALSE,
              events |-> <<>>]
        ELSE IF p.raised
        THEN [raised |-> TRUE, cause |-> "push", pushed |-> TRUE,
              events |-> <<Ev("pushing", "Pushing changes")>>]
        ELSE IF 2 \in sf
        THEN [raised |-> TRUE, cause |-> "sink", pushed |-> TRUE,
              events |-> <<Ev("pushing", "Pushing changes")>>]
        ELSE [raised |-> FALSE, cause |-> None, pushed |-> TRUE,
              events |-> <<Ev("pushing", "Pushing changes"),
                           Ev("success", "Branch pushed")>>]

\* Step 5 of run: the "Pushing changes" event (emission 1), then push_branch
\* and the "Branch pushed" event (emission 2) inside the try, and the
\* "Failed to push branch" event (emission 3) in its except branch.
final_push(outcome, sf) ==
    LET p == push_branch(repo, outcome)
    IN  IF 1 \in sf
        THEN [raised |-> TRUE, cause |-> "sink", pushed |-> FALSE,
              events |-> <<>>]
        ELSE IF p.raised \/ 2 \in sf
        THEN IF 3 \in sf
             THEN [raised |-> TRUE, cause |-> "sink", pushed |-> TRUE,
                   events |-> <<Ev("pushing", "Pushing changes")>>]
             ELSE [raised |-> FALSE, cause |-> None, pushed |-> TRUE,
                   events |-> <<Ev("pushing", "Pushing changes"),
                                Ev("error", "Failed to push branch")>>]
        ELSE [raised |-> FALSE, cause |-> None, pushed |-> TRUE,
              events |-> <<Ev("pushing", "Pushing changes"),
                           Ev("success", "Branch pushed")>>]

\* The progress events of _run_tests under a sink that fails.  r: what
\* _run_tests does with a working sink.  An event emitted inside the try
\* (emission 1) that fails is caught by "except Exception", which emits an
\* error event (emission 2) and returns ""; a failure of the error event
\* itself leaves _run_tests.
run_tests_emit(r, sf) ==
    IF r.events = <<>> \/ 1 \notin sf
    THEN [raised |-> FALSE, output |-> r.output, outcome |-> r.outcome,
          events |-> r.events]
    ELSE IF r.events[1][1] = "error" \/ 2 \in sf
    THEN [raised |-> TRUE, output |-> r.output, outcome |-> r.outcome,
          events |-> <<>>]
    ELSE [raised |-> FALSE, output |-> <<>>, outcome |-> "emit_failed",
          events |-> <<Ev("error",
                          IF sandbox THEN "Sandbox test execution failed"
                          ELSE "Error running tests")>>]

-----------------------------------------------------------------------------
\* GitHandler and the heartbeat at rest, as they are throughout Spec, and the
\* run at rest, as it is in the other specifications.
GitIdle ==
    /\ gPc = "off"
    /\ gTeam = <<>>
    /\ gLeader = <<>>
    /\ gPath = "absent"
    /\ gAttempt = 0
    /\ gRmCalls = 0
    /\ gCloneCalls = <<>>
    /\ gRepo = FALSE
    /\ gBranches = {}
    /\ gRemote = {}
    /\ gHead = None
    /\ gCheckouts = <<>>
    /\ gReturned = None
    /\ gRaised = None

HBIdle ==
    /\ hbMain = "off"
    /\ hbCall = 0
    /\ hbExit = <<>>
    /\ hbFlag = <<>>
    /\ hbThread = <<>>
    /\ hbElapsed = <<>>
    /\ hbSent = <<>>
    /\ hbLate = <<>>

SbIdle ==
    /\ sbPc = "off"
    /\ sbSecret = ""
    /\ sbHeader = None
    /\ sbBranch = None
    /\ sbCmds = <<>>
    /\ sbRepo = None
    /\ sbProject = None
    /\ sbResp = None

FixIdle ==
    /\ fxFiles = <<>>
    /\ fxError = None
    /\ fxHist = <<>>
    /\ fxRet = <<>>

ItIdle ==
    /\ itErrors = <<>>
    /\ itIdx = 0
    /\ itIndex = <<>>
    /\ itLog = <<>>
    /\ itFixes = <<>>

AuxIdle == SbIdle /\ FixIdle /\ ItIdle

RunIdle ==
    /\ pc = "off"
    /\ max_retries = 0
    /\ sandbox = FALSE
    /\ ws = FALSE
    /\ sinkFaulty = FALSE
    /\ progress = <<>>
    /\ repo = FALSE
    /\ project_type = None
    /\ venv_python = FALSE
    /\ branch_name = None
    /\ iteration = 0
    /\ iterations = 0
    /\ total_failures = 0
    /\ fixes = <<>>
    /\ test_output = Unbound
    /\ errors = Unbound
    /\ errIdx = 0
    /\ fixed_count = -1
    /\ commits = <<>>
    /\ pushes = <<>>
    /\ testRuns = 0
    /\ testOutcome = None
    /\ faults = {}
    /\ raised = None
    /\ response = None

Init ==
    /\ GitIdle
    /\ HBIdle
    /\ AuxIdle
    /\ pc = "start"
    /\ max_retries \in 0..MaxRetriesBound
    /\ sandbox \in BOOLEAN
    /\ ws \in BOOLEAN
    /\ sinkFaulty \in IF ws THEN BOOLEAN ELSE {FALSE}
    /\ progress = <<>>
    /\ repo = FALSE
    /\ project_type = None
    /\ venv_python = FALSE
    /\ branch_name = None
    /\ iteration = 0
    /\ iterations = 0
    /\ total_failures = 0
    /\ fixes = <<>>
    /\ test_output = Unbound
    /\ errors = Unbound
    /\ errIdx = 0
    /\ fixed_count = -1
    /\ commits = <<>>
    /\ pushes = <<>>
    /\ testRuns = 0
    /\ testOutcome = None
    /\ faults = {}
    /\ raised = None
    /\ response = None

-----------------------------------------------------------------------------
(* DockerRunner.run, one action per step.                                   *)

Raise(cause) ==
    /\ pc' = "raised"
    /\ raised' = cause

\* _emit_progress raising out of run: emission k of evs fails, the ones
\* before it went through.  extra: what else failed in the step.
SinkRaise(evs, k, extra) ==
    /\ Raise("sink")
    /\ progress' = progress \o SubSeq(evs, 1, k - 1)
    /\ faults' = faults \cup {"sink"} \cup extra

\* Step 1: clone the repository.
CloneRepo ==
    /\ pc = "start"
    /\ \E exists \in BOOLEAN, rmFails \in 0..max_attempts,
          stillThere \in BOOLEAN, cloneOk \in BOOLEAN, sf \in SinkFailures(3) :
          LET c   == clone_repo(exists, rmFails, stillThere, cloneOk)
              evs == <<Ev("info", "Starting"), Ev("cloning", "Cloning"),
                       Ev("success", "Repository cloned")>>
              k   == FirstFail(sf, IF c.raised THEN 2 ELSE 3)
          IN  IF k # 0
              THEN /\ SinkRaise(evs, k, {})
                   /\ repo' = IF k = 3 THEN c.repo ELSE repo
              ELSE /\ repo' = c.repo
                   /\ IF c.raised
                      THEN /\ Raise("clone")
                           /\ faults' = faults \cup {"clone"}
                           /\ progress' = progress \o SubSeq(evs, 1, 2)
                      ELSE /\ pc' = "detect"
                           /\ progress' = progress \o evs
                           /\ UNCHANGED <<raised, faults>>
    /\ UNCHANGED <<gitvars, hbvars, auxvars>>
    /\ UNCHANGED <<max_retries, sandbox, ws, sinkFaulty, project_type,
                   venv_python, branch_name, iteration, iterations,
                   total_failures, fixes, test_output, errors, errIdx,
                   fixed_count, commits, pushes, testRuns, testOutcome,
                   response>>

\* _detect_project_type
detect_project_type(package_json, requirements_txt) ==
    IF package_json THEN "javascript"
    ELSE IF requirements_txt THEN "python"
    ELSE "unknown"

\* Step 1.5: detect the project type.
DetectProjectType ==
    /\ pc = "detect"
    /\ \E package_json \in BOOLEAN, requirements_txt \in BOOLEAN,
          sf \in SinkFailures(2) :
          LET evs == <<Ev("analyzing", "Detecting project type"),
                       Ev("info", "Detected")>>
              k   == FirstFail(sf, 2)
              t   == detect_project_type(package_json, requirements_txt)
          IN  IF k # 0
              THEN /\ SinkRaise(evs, k, {})
                   /\ project_type' = IF k = 2 THEN t ELSE project_type
              ELSE /\ project_type' = t
                   /\ progress' = progress \o evs
                   /\ pc' = "venv"
                   /\ UNCHANGED <<raised, faults>>
    /\ UNCHANGED <<gitvars, hbvars, auxvars>>
    /\ UNCHANGED <<max_retries, sandbox, ws, sinkFaulty, repo, venv_python,
                   branch_name, iteration, iterations, total_failures, fixes,
                   test_output, errors, errIdx, fixed_count, commits, pushes,
                   testRuns, testOutcome, response>>

\* Step 2.5: _create_venv, for Python projects in local mode.
CreateVenv ==
    /\ pc = "venv"
    /\ IF ~sandbox /\ project_type = "python"
       THEN \E end \in {"exists", "created", "error"}, sf \in SinkFailures(2) :
              LET evs == <<Ev("venv", "Creating environment"),
                           Ev("success", "Virtual environment created")>>
                  k   == FirstFail(sf, 2)
                  f   == IF end = "error" THEN {"venv"} ELSE {}
              IN  IF k # 0
                  THEN /\ SinkRaise(evs, k, IF k = 2 THEN f ELSE {})
                       /\ venv_python' = IF k = 2 THEN end # "error"
                                         ELSE venv_python
                  ELSE /\ venv_python' = (end # "error")
                       /\ faults' = faults \cup f
                       /\ progress' = progress \o evs
                       /\ pc' = "install"
                       /\ UNCHANGED raised
       ELSE /\ pc' = "install"
            /\ UNCHANGED <<venv_python, faults, progress, raised>>
    /\ UNCHANGED <<gitvars, hbvars, auxvars>>
    /\ UNCHANGED <<max_retries, sandbox, ws, sinkFaulty, repo, project_type,
                   branch_name, iteration, iterations, total_failures, fixes,
                   test_output, errors, errIdx, fixed_count, commits, pushes,
                   testRuns, testOutcome, response>>

\* Step 2: _install_dependencies, in local mode.  end: how the install
\* command ends; no install command runs for an unknown project type.
InstallDependencies ==
    /\ pc = "install"
    /\ IF ~sandbox
       THEN \E end \in {"ok", "nonzero", "timeout", "error"},
               sf \in SinkFailures(2) :
              LET evs == <<Ev("installing", "Installing dependencies"),
                           Ev("success", "Dependencies installed")>>
                  k   == FirstFail(sf, 2)
                  f   == IF project_type # "unknown" /\ end # "ok"
                         THEN {"install"} ELSE {}
              IN  IF k # 0
                  THEN SinkRaise(evs, k, IF k = 2 THEN f ELSE {})
                  ELSE /\ faults' = faults \cup f
                       /\ progress' = progress \o evs
                       /\ pc' = "branch"
                       /\ UNCHANGED raised
       ELSE /\ pc' = "branch"
            /\ UNCHANGED <<faults, progress, raised>>
    /\ UNCHANGED <<gitvars, hbvars, auxvars>>
    /\ UNCHANGED <<max_retries, sandbox, ws, sinkFaulty, repo, project_type,
                   venv_python, branch_name, iteration, iterations,
                   total_failures, fixes, test_output, errors, errIdx,
                   fixed_count, commits, pushes, testRuns, testOutcome,
                   response>>

\* Step 3: create the branch.
CreateBranch ==
    /\ pc = "branch"
    /\ \E first \in CheckoutOutcomes, second \in CheckoutOutcomes,
          third \in CheckoutOutcomes, sf \in SinkFailures(2) :
          LET b   == create_branch(repo, first, second, third)
              evs == <<Ev("info", "Creating branch"),
                       Ev("success", "Branch created")>>
              k   == FirstFail(sf, IF b.raised THEN 1 ELSE 2)
          IN  IF k # 0
              THEN /\ SinkRaise(evs, k, {})
                   /\ branch_name' = IF k = 2 THEN b.name ELSE branch_name
              ELSE IF b.raised
              THEN /\ Raise("branch")
                   /\ faults' = faults \cup {"branch"}
                   /\ progress' = progress \o SubSeq(evs, 1, 1)
                   /\ UNCHANGED branch_name
              ELSE /\ pc' = "sandbox_push"
                   /\ branch_name' = b.name
                   /\ progress' = progress \o evs
                   /\ UNCHANGED <<raised, faults>>
    /\ UNCHANGED <<gitvars, hbvars, auxvars>>
    /\ UNCHANGED <<max_retries, sandbox, ws, sinkFaulty, repo, project_type,
                   venv_python, iteration, iterations, total_failures, fixes,
                   test_output, errors, errIdx, fixed_count, commits, pushes,
                   testRuns, testOutcome, response>>

\* A push of the branch as the remote sees it: where in run it happens, how
\* it ends and how many commits of the run the branch holds.
Push(at, result) == [at |-> at, result |-> result, n |-> Len(commits)]

\* "If sandbox is enabled, push branch so the sandbox can clone it".
PushForSandbox ==
    /\ pc = "sandbox_push"
    /\ IF sandbox
       THEN \E o \in PushOutcomes, sf \in SinkFailures(1) :
              LET p   == push_branch(repo, o)
                  evs == <<Ev("info", "Pushing for sandbox")>>
              IN  IF FirstFail(sf, 1) # 0
                  THEN /\ SinkRaise(evs, 1, {})
                       /\ UNCHANGED pushes
                  ELSE /\ pushes' = Append(pushes, Push("sandbox", o))
                       /\ progress' = progress \o evs
                       /\ IF p.raised \/ ~p.ret
                          THEN /\ Raise("push")
                               /\ faults' = faults \cup {"push_sandbox"}
                          ELSE /\ pc' = "loop"
                               /\ UNCHANGED <<raised, faults>>
       ELSE /\ pc' = "loop"
            /\ UNCHANGED <<pushes, progress, raised, faults>>
    /\ UNCHANGED <<gitvars, hbvars, auxvars>>
    /\ UNCHANGED <<max_retries, sandbox, ws, sinkFaulty, repo, project_type,
                   venv_python, branch_name, iteration, iterations,
                   total_failures, fixes, test_output, errors, errIdx,
                   fixed_count, commits, testRuns, testOutcome, response>>

\* Step 4, loop head: "for iteration in range(self.max_retries)".
LoopHead ==
    /\ pc = "loop"
    /\ IF range_has_next
       THEN /\ iteration' = iteration + 1
            /\ iterations' = iteration_number
            /\ \E sf \in SinkFailures(1) :
                  LET evs == <<Ev("testing", "Running tests")>>
                  IN  IF FirstFail(sf, 1) # 0
                      THEN SinkRaise(evs, 1, {})
                      ELSE /\ progress' = progress \o evs
                           /\ pc' = "sync"
                           /\ UNCHANGED <<raised, faults>>
       ELSE /\ pc' = "final"
            /\ UNCHANGED <<iteration, iterations, progress, raised, faults>>
    /\ UNCHANGED <<gitvars, hbvars, auxvars>>
    /\ UNCHANGED <<max_retries, sandbox, ws, sinkFaulty, repo, project_type,
                   venv_python, branch_name, total_failures, fixes,
                   test_output, errors, errIdx, fixed_count, commits, pushes,
                   testRuns, testOutcome, response>>

\* "If sandbox is enabled, ensure latest commits are pushed before testing".
SyncPush ==
    /\ pc = "sync"
    /\ IF sync_before_test
       THEN \E o \in PushOutcomes, sf \in SinkFailures(1) :
              LET p   == push_branch(repo, o)
                  evs == <<Ev("error", "Failed to push branch updates")>>
              IN  /\ pushes' = Append(pushes, Push("loop", o))
                  /\ IF p.raised
                     THEN /\ Raise("push")
                          /\ faults' = faults \cup {"push_loop"}
                          /\ UNCHANGED progress
                     ELSE IF ~p.ret
                     THEN IF FirstFail(sf, 1) # 0
                          THEN SinkRaise(evs, 1, {"push_loop"})
                          ELSE /\ Raise("push")
                               /\ faults' = faults \cup {"push_loop"}
                               /\ progress' = progress \o evs
                     ELSE /\ pc' = "test"
                          /\ UNCHANGED <<raised, faults, progress>>
       ELSE /\ pc' = "test"
            /\ UNCHANGED <<pushes, progress, raised, faults>>
    /\ UNCHANGED <<gitvars, hbvars, auxvars>>
    /\ UNCHANGED <<max_retries, sandbox, ws, sinkFaulty, repo, project_type,
                   venv_python, branch_name, iteration, iterations,
                   total_failures, fixes, test_output, errors, errIdx,
                   fixed_count, commits, testRuns, testOutcome, response>>

TestFault(outcome, rc) ==
    IF outcome \in {"local_timeout", "remote_timed_out"} THEN {"test_timeout"}
    ELSE IF outcome = "local_launch_error" THEN {"test_launch"}
    ELSE IF outcome = "remote_call_failed" THEN {"remote_call"}
    ELSE IF rc # 0 THEN {"test_failed"}
    ELSE {}

\* "test_output = self._run_tests(repo_path)"
RunTests ==
    /\ pc = "test"
    /\ testRuns' = testRuns + 1
    /\ \E out \in Stdouts, err \in Stderrs, rc \in {0, 1},
          sf \in SinkFailures(2) :
          /\ parse_errors(out \o err) # <<>> => rc # 0
          /\ \E r \in IF sandbox
                      THEN {run_tests_remote(callOk,
                                sandbox_run_tests(authOk, cloneEnd, testEnd,
                                                  out, err, rc)) :
                              callOk \in BOOLEAN, authOk \in BOOLEAN,
                              cloneEnd \in {"done", "timeout"},
                              testEnd \in {"done", "timeout", "crash"}}
                      ELSE {run_tests_local(end, out, err, rc) :
                              end \in {"launch_error", "exit", "timeout",
                                       "timeout_error"}} :
                LET e == run_tests_emit(r, sf)
                    f == TestFault(r.outcome, rc) \cup
                            (IF e.raised THEN {"sink"} ELSE {})
                IN  /\ faults' = faults \cup f
                    /\ progress' = progress \o e.events
                    /\ IF e.raised
                       THEN /\ Raise("sink")
                            /\ UNCHANGED <<test_output, testOutcome>>
                       ELSE /\ test_output' = e.output
                            /\ testOutcome' = e.outcome
                            /\ pc' = "parse"
                            /\ UNCHANGED raised
    /\ UNCHANGED <<gitvars, hbvars, auxvars>>
    /\ UNCHANGED <<max_retries, sandbox, ws, sinkFaulty, repo, project_type,
                   venv_python, branch_name, iteration, iterations,
                   total_failures, fixes, errors, errIdx, fixed_count, commits,
                   pushes, response>>

\* "errors = self.parser.parse_errors(...)" up to "fixed_count = 0".
ParseErrors ==
    /\ pc = "parse"
    /\ \E sf \in SinkFailures(2) :
          LET errs == parse_errors(test_output)
              evs  == IF errs = <<>>
                      THEN <<Ev("success", "All tests passed")>>
                      ELSE <<Ev("warning", "Found errors"),
                             Ev("fixing", "Applying fixes")>>
              k    == FirstFail(sf, Len(evs))
          IN  /\ errors' = errs
              /\ total_failures' = failures_after_parse(errs)
              /\ IF k # 0
                 THEN /\ SinkRaise(evs, k, {})
                      /\ UNCHANGED <<fixed_count, errIdx>>
                 ELSE /\ pc' = after_parse(errs)
                      /\ progress' = progress \o evs
                      /\ fixed_count' = IF errs = <<>> THEN fixed_count ELSE 0
                      /\ errIdx' = IF errs = <<>> THEN errIdx ELSE 1
                      /\ UNCHANGED <<raised, faults>>
    /\ UNCHANGED <<gitvars, hbvars, auxvars>>
    /\ UNCHANGED <<max_retries, sandbox, ws, sinkFaulty, repo, project_type,
                   venv_python, branch_name, iteration, iterations, fixes,
                   test_output, commits, pushes, testRuns, testOutcome,
                   response>>

\* One round of "for error in errors: if self._apply_and_commit_fix(error)".
\* rule: how the fixer's rule for the record ends; the "Fixing" event is
\* emission 1, the "Fixed" event emission 2.
ApplyAndCommitFix ==
    /\ pc = "fix"
    /\ errIdx <= Len(errors)
    /\ \E rule \in RuleOutcomes,
          commitOutcome \in {"ok", "add_error", "commit_error"},
          sf \in SinkFailures(2) :
          LET error == errors[errIdx]
              a     == apply_fix(error.type, rule)
              r     == apply_and_commit_fix(error, a.ret, commitOutcome,
                                            2 \notin sf)
          IN  IF 1 \in sf
              THEN /\ SinkRaise(r.events, 1, {})
                   /\ UNCHANGED <<fixes, commits, fixed_count, errIdx>>
              ELSE IF a.raised
              THEN /\ Raise("fixer")
                   /\ faults' = faults \cup {"fix_error"}
                   /\ progress' = progress \o SubSeq(r.events, 1, 1)
                   /\ UNCHANGED <<fixes, commits, fixed_count, errIdx>>
              ELSE /\ fixes' = r.fixes
                   /\ commits' = r.commits
                   /\ progress' = progress \o r.events
                   /\ fixed_count' = IF r.ret THEN fixed_count + 1
                                     ELSE fixed_count
                   /\ faults' = faults \cup
                         (IF rule = "raise" THEN {"fix_error"}
                          ELSE IF ~a.ret THEN {"dispatch"}
                          ELSE IF commitOutcome # "ok" THEN {"commit"}
                          ELSE {})
                   /\ errIdx' = errIdx + 1
                   /\ pc' = IF errIdx + 1 > Len(errors) THEN "iter_end"
                            ELSE "fix"
                   /\ UNCHANGED raised
    /\ UNCHANGED <<gitvars, hbvars, auxvars>>
    /\ UNCHANGED <<max_retries, sandbox, ws, sinkFaulty, repo, project_type,
                   venv_python, branch_name, iteration, iterations,
                   total_failures, test_output, errors, pushes, testRuns,
                   testOutcome, response>>

\* End of an iteration: "if fixed_count == 0: ... break".
IterEnd ==
    /\ pc = "iter_end"
    /\ \E sf \in SinkFailures(2) :
          LET evs == IF fixed_count = 0
                     THEN <<Ev("info", "Applied fixes"),
                            Ev("error", "No fixes could be applied")>>
                     ELSE <<Ev("info", "Applied fixes")>>
              k   == FirstFail(sf, Len(evs))
          IN  IF k # 0
              THEN SinkRaise(evs, k, {})
              ELSE /\ progress' = progress \o evs
                   /\ pc' = after_fixes(fixed_count)
                   /\ UNCHANGED <<raised, faults>>
    /\ UNCHANGED <<gitvars, hbvars, auxvars>>
    /\ UNCHANGED <<max_retries, sandbox, ws, sinkFaulty, repo, project_type,
                   venv_python, branch_name, iteration, iterations,
                   total_failures, fixes, test_output, errors, errIdx,
                   fixed_count, commits, pushes, testRuns, testOutcome,
                   response>>

\* Step 5: push the branch.
FinalPush ==
    /\ pc = "final"
    /\ IF wants_final_push
       THEN \E o \in PushOutcomes, sf \in SinkFailures(3) :
              LET f == final_push(o, sf)
              IN  /\ pushes' = IF f.pushed
                               THEN Append(pushes, Push("final", o))
                               ELSE pushes
                  /\ progress' = progress \o f.events
                  /\ faults' = faults
                        \cup (IF f.pushed /\ o # "ok" THEN {"push_final"}
                              ELSE {})
                        \cup (IF f.cause = "sink" THEN {"sink"} ELSE {})
                  /\ IF f.raised
                     THEN Raise(f.cause)
                     ELSE /\ pc' = "report"
                          /\ UNCHANGED raised
       ELSE \E sf \in SinkFailures(1) :
              LET evs == <<Ev("warning",
                              "No fixes were applied, skipping push")>>
              IN  /\ IF FirstFail(sf, 1) # 0
                     THEN SinkRaise(evs, 1, {})
                     ELSE /\ progress' = progress \o evs
                          /\ pc' = "report"
                          /\ UNCHANGED <<faults, raised>>
                  /\ UNCHANGED pushes
    /\ UNCHANGED <<gitvars, hbvars, auxvars>>
    /\ UNCHANGED <<max_retries, sandbox, ws, sinkFaulty, repo, project_type,
                   venv_python, branch_name, iteration, iterations,
                   total_failures, fixes, test_output, errors, errIdx,
                   fixed_count, commits, testRuns, testOutcome, response>>

\* Steps 6 and 7: build the report, save it and return it.
Finish ==
    /\ pc = "report"
    /\ \E sf \in SinkFailures(2) :
          LET evs == <<Ev("completing", "Generating final report"),
                       Ev("completed", "Agent run completed")>>
              k   == FirstFail(sf, 2)
          IN  IF k # 0
              THEN /\ SinkRaise(evs, k, {})
                   /\ UNCHANGED response
              ELSE /\ response' = generate_response(branch_name)
                   /\ progress' = progress \o evs
                   /\ pc' = "done"
                   /\ UNCHANGED <<raised, faults>>
    /\ UNCHANGED <<gitvars, hbvars, auxvars>>
    /\ UNCHANGED <<max_retries, sandbox, ws, sinkFaulty, repo, project_type,
                   venv_python, branch_name, iteration, iterations,
                   total_failures, fixes, test_output, errors, errIdx,
                   fixed_count, commits, pushes, testRuns, testOutcome>>

Next ==
    \/ CloneRepo
    \/ DetectProjectType
    \/ CreateVenv
    \/ InstallDependencies
    \/ CreateBranch
    \/ PushForSandbox
    \/ LoopHead
    \/ SyncPush
    \/ RunTests
    \/ ParseErrors
    \/ ApplyAndCommitFix
    \/ IterEnd
    \/ FinalPush
    \/ Finish

Spec == Init /\ [][Next]_vars

-----------------------------------------------------------------------------
(* GitHandler on its own: clone_repo step by step, then create_branch.      *)

\* The team and leader SpecGit runs for: those of the run, and a team whose
\* name has a tab inside, which survives the formatting and which git does
\* not accept in a branch name.
GitNames == {<<Team, Leader>>, <<<<"a", "\t", "a">>, <<"a">>>>}

\* The default branch of a repository whose branches do not collide.
Main == <<"m", "a", "i", "n">>

InitGit ==
    /\ RunIdle
    /\ HBIdle
    /\ AuxIdle
    /\ gPc = "clone_start"
    /\ \E names \in GitNames : gTeam = names[1] /\ gLeader = names[2]
    /\ gPath \in {"absent", "stale"}
    /\ gAttempt = 0
    /\ gRmCalls = 0
    /\ gCloneCalls = <<>>
    /\ gRepo = FALSE
    /\ gBranches = {}
    /\ gRemote = {}
    /\ gHead = None
    /\ gCheckouts = <<>>
    /\ gReturned = None
    /\ gRaised = None

GitRaise(cause) ==
    /\ gPc' = "raised"
    /\ gRaised' = cause

\* clone_repo: "if os.path.exists(repo_path)".
GitCloneStart ==
    /\ gPc = "clone_start"
    /\ gPc' = IF gPath # "absent" THEN "rmtree" ELSE "clone_from"
    /\ UNCHANGED <<gTeam, gLeader, gPath, gAttempt, gRmCalls, gCloneCalls,
                   gRepo, gBranches, gRemote, gHead, gCheckouts, gReturned,
                   gRaised>>
    /\ UNCHANGED <<runvars, hbvars, auxvars>>

\* One pass of "for attempt in range(max_attempts)": rmtree removes the
\* directory, returns with something left at the path, or raises.
GitRmtree ==
    /\ gPc = "rmtree"
    /\ gAttempt < max_attempts
    /\ gRmCalls' = gRmCalls + 1
    /\ \E end \in {"removed", "left", "raise"} :
          IF end = "raise"
          THEN /\ IF retry_rmtree(gAttempt)
                  THEN /\ gAttempt' = gAttempt + 1
                       /\ UNCHANGED <<gPc, gRaised>>
                  ELSE /\ GitRaise("clean")
                       /\ UNCHANGED gAttempt
               /\ UNCHANGED gPath
          ELSE /\ gPath' = IF end = "removed" THEN "absent" ELSE gPath
               /\ gPc' = "verify"
               /\ UNCHANGED <<gAttempt, gRaised>>
    /\ UNCHANGED <<gTeam, gLeader, gCloneCalls, gRepo, gBranches, gRemote,
                   gHead, gCheckouts, gReturned>>
    /\ UNCHANGED <<runvars, hbvars, auxvars>>

\* clone_repo: "Verify it's gone".
GitVerify ==
    /\ gPc = "verify"
    /\ IF still_exists(gPath)
       THEN GitRaise("still_exists")
       ELSE /\ gPc' = "clone_from"
            /\ UNCHANGED gRaised
    /\ UNCHANGED <<gTeam, gLeader, gPath, gAttempt, gRmCalls, gCloneCalls,
                   gRepo, gBranches, gRemote, gHead, gCheckouts, gReturned>>
    /\ UNCHANGED <<runvars, hbvars, auxvars>>

\* clone_repo: Repo.clone_from and "self.repo = ...".  The clone has one
\* local branch, the default branch of origin, which can be any name.
GitCloneFrom ==
    /\ gPc = "clone_from"
    /\ gCloneCalls' = Append(gCloneCalls, gPath)
    /\ \E ok \in BOOLEAN :
          IF ok
          THEN LET X == format_branch_name(gTeam, gLeader)
               IN  \E default \in {Main, X, unique_branch(X)},
                      others \in SUBSET {X, unique_branch(X)} :
                      /\ valid_ref(default)
                      /\ \A b \in others : valid_ref(b)
                      /\ gBranches' = {default}
                      /\ gRemote' = {default} \cup others
                      /\ gHead' = default
                      /\ gRepo' = TRUE
                      /\ gPath' = "fresh"
                      /\ gPc' = "create_branch"
                      /\ UNCHANGED gRaised
          ELSE /\ GitRaise("clone")
               /\ UNCHANGED <<gBranches, gRemote, gHead, gRepo, gPath>>
    /\ UNCHANGED <<gTeam, gLeader, gAttempt, gRmCalls, gCheckouts, gReturned>>
    /\ UNCHANGED <<runvars, hbvars, auxvars>>

\* create_branch on the clone.  e1, e2, e3: what else fails in the first,
\* second and third checkout.
GitCreateBranch ==
    /\ gPc = "create_branch"
    /\ \E e1 \in CheckoutOutcomes, e2 \in CheckoutOutcomes,
          e3 \in CheckoutOutcomes :
          LET X  == format_branch_name(gTeam, gLeader)
              c1 == git_checkout(gBranches, gRemote, gHead, X, TRUE, e1)
              c2 == git_checkout(c1.branches, gRemote, c1.head, X, FALSE, e2)
              c3 == git_checkout(c2.branches, gRemote, c2.head,
                                 unique_branch(X), TRUE, e3)
              b  == create_branch_named(X, gRepo, c1.outcome, c2.outcome,
                                        c3.outcome)
              c  == IF b.calls = 3 THEN c3
                    ELSE IF b.calls = 2 THEN c2
                    ELSE IF b.calls = 1 THEN c1
                    ELSE [branches |-> gBranches, head |-> gHead]
          IN  /\ gBranches' = c.branches
              /\ gHead' = c.head
              /\ gCheckouts' = SubSeq(<<c1.outcome, c2.outcome, c3.outcome>>,
                                      1, b.calls)
              /\ IF b.raised
                 THEN /\ GitRaise("branch")
                      /\ UNCHANGED gReturned
                 ELSE /\ gReturned' = b.name
                      /\ gPc' = "done"
                      /\ UNCHANGED gRaised
    /\ UNCHANGED <<gTeam, gLeader, gPath, gAttempt, gRmCalls, gCloneCalls,
                   gRepo, gRemote>>
    /\ UNCHANGED <<runvars, hbvars, auxvars>>

NextGit ==
    \/ GitCloneStart
    \/ GitRmtree
    \/ GitVerify
    \/ GitCloneFrom
    \/ GitCreateBranch

SpecGit == InitGit /\ [][NextGit]_vars

-----------------------------------------------------------------------------
(* The branch name of create_branch, for every team and leader.             *)

\* The characters team and leader names are drawn from.
NameChars == {"a", " ", "\t"}

\* The names drawn: every sequence of at most MaxNameLen characters, and the
\* team and the leader of the run.
Names ==
    UNION {[1..n -> NameChars] : n \in 0..MaxNameLen} \cup {Team, Leader}

InitName ==
    /\ RunIdle
    /\ HBIdle
    /\ AuxIdle
    /\ gPc = "create_branch"
    /\ gTeam \in Names
    /\ gLeader \in Names
    /\ gPath = "fresh"
    /\ gAttempt = 0
    /\ gRmCalls = 0
    /\ gCloneCalls = <<>>
    /\ gRepo = TRUE
    /\ gBranches = {Main}
    /\ gRemote = {Main}
    /\ gHead = Main
    /\ gCheckouts = <<>>
    /\ gReturned = None
    /\ gRaised = None

\* create_branch on a clone in which nothing but the name decides how the
\* checkouts end.
NameCreateBranch ==
    /\ gPc = "create_branch"
    /\ LET X  == format_branch_name(gTeam, gLeader)
           c1 == git_checkout(gBranches, gRemote, gHead, X, TRUE, "ok")
           b  == create_branch_named(X, gRepo, c1.outcome, "git_error",
                                     "git_error")
       IN  /\ gCheckouts' = SubSeq(<<c1.outcome, "git_error", "git_error">>,
                                   1, b.calls)
           /\ IF b.raised
              THEN /\ GitRaise("branch")
                   /\ UNCHANGED <<gReturned, gBranches, gHead>>
              ELSE /\ gReturned' = b.name
                   /\ gBranches' = c1.branches
                   /\ gHead' = c1.head
                   /\ gPc' = "done"
                   /\ UNCHANGED gRaised
    /\ UNCHANGED <<gTeam, gLeader, gPath, gAttempt, gRmCalls, gCloneCalls,
                   gRepo, gRemote>>
    /\ UNCHANGED <<runvars, hbvars, auxvars>>

NextName == NameCreateBranch

SpecName == InitName /\ [][NextName]_vars

-----------------------------------------------------------------------------
(* The local branch of _run_tests and its heartbeat thread.  Every call     *)
(* makes its own flag (process_running) and its own daemon thread; the      *)
(* thread is started and never joined.  The steps of the main thread and    *)
(* of the heartbeat threads interleave freely.                               *)

\* "while process_running['status'] and elapsed < 120"
HeartbeatCeiling == 120

\* "time.sleep(10)" and "elapsed += 10"
HeartbeatStep == 10

\* The loop test of send_progress_updates.
heartbeat_continues(flag, elapsed) == flag /\ elapsed < HeartbeatCeiling

\* An exit of _run_tests that leaves the flag as it is.
flag_at_exit_kept(flag) == flag

\* "process_running['status'] = False" in the finally blocks and in the
\* except branch: the flag when _run_tests is left.
flag_at_exit(flag) == FALSE

InitHB ==
    /\ RunIdle
    /\ GitIdle
    /\ AuxIdle
    /\ hbMain = "idle"
    /\ hbCall = 0
    /\ hbExit = <<>>
    /\ hbFlag = <<>>
    /\ hbThread = <<>>
    /\ hbElapsed = <<>>
    /\ hbSent = <<>>
    /\ hbLate = <<>>

\* The current call leaves _run_tests: how, and where the main thread is
\* afterwards (a raise ends the run).
HBLeave(how) ==
    /\ hbExit' = [hbExit EXCEPT ![hbCall] = how]
    /\ hbFlag' = [hbFlag EXCEPT ![hbCall] = flag_at_exit(hbFlag[hbCall])]
    /\ hbMain' = IF how = "returned" THEN "idle" ELSE "stopped"

\* _run_tests is called: the flag is made and the thread is started.
HBStart ==
    /\ hbMain = "idle"
    /\ hbCall < MaxCalls
    /\ hbCall' = hbCall + 1
    /\ hbExit' = Append(hbExit, "running")
    /\ hbFlag' = Append(hbFlag, TRUE)
    /\ hbThread' = Append(hbThread, "while")
    /\ hbElapsed' = Append(hbElapsed, 0)
    /\ hbSent' = Append(hbSent, 0)
    /\ hbLate' = Append(hbLate, 0)
    /\ hbMain' = "popen"
    /\ UNCHANGED <<runvars, gitvars, auxvars>>

\* subprocess.Popen: it starts the process or raises.
HBPopen ==
    /\ hbMain = "popen"
    /\ \E ok \in BOOLEAN : hbMain' = IF ok THEN "communicate" ELSE "except"
    /\ UNCHANGED <<hbCall, hbExit, hbFlag, hbThread, hbElapsed, hbSent, hbLate>>
    /\ UNCHANGED <<runvars, gitvars, auxvars>>

\* process.communicate(timeout=120): the process exits, the wait times out,
\* or the call raises something else; the inner finally clears the flag
\* unless the timeout handler runs first.
HBCommunicate ==
    /\ hbMain = "communicate"
    /\ \E end \in {"exit", "timeout", "error"} :
          IF end = "timeout"
          THEN /\ hbMain' = "kill"
               /\ UNCHANGED hbFlag
          ELSE /\ hbMain' = IF end = "exit" THEN "log" ELSE "except"
               /\ hbFlag' = [hbFlag EXCEPT
                                ![hbCall] = flag_at_exit(hbFlag[hbCall])]
    /\ UNCHANGED <<hbCall, hbExit, hbThread, hbElapsed, hbSent, hbLate>>
    /\ UNCHANGED <<runvars, gitvars, auxvars>>

\* The timeout handler: kill, communicate, the warning event, return "".
\* ok: none of them raises.
HBTimeout ==
    /\ hbMain = "kill"
    /\ \E ok \in BOOLEAN :
          IF ok
          THEN HBLeave("returned")
          ELSE /\ hbMain' = "except"
               /\ hbFlag' = [hbFlag EXCEPT
                                ![hbCall] = flag_at_exit(hbFlag[hbCall])]
               /\ UNCHANGED hbExit
    /\ UNCHANGED <<hbCall, hbThread, hbElapsed, hbSent, hbLate>>
    /\ UNCHANGED <<runvars, gitvars, auxvars>>

\* After the process has exited: the result event and "return output".
\* ok: the event goes through.
HBLog ==
    /\ hbMain = "log"
    /\ \E ok \in BOOLEAN :
          IF ok
          THEN HBLeave("returned")
          ELSE /\ hbMain' = "except"
               /\ UNCHANGED <<hbExit, hbFlag>>
    /\ UNCHANGED <<hbCall, hbThread, hbElapsed, hbSent, hbLate>>
    /\ UNCHANGED <<runvars, gitvars, auxvars>>

\* "except Exception": the flag is cleared, the error event is emitted and ""
\* is returned; when the event raises, _run_tests raises.
HBExcept ==
    /\ hbMain = "except"
    /\ \E ok \in BOOLEAN : HBLeave(IF ok THEN "returned" ELSE "raised")
    /\ UNCHANGED <<hbCall, hbThread, hbElapsed, hbSent, hbLate>>
    /\ UNCHANGED <<runvars, gitvars, auxvars>>

\* The heartbeat thread of call i evaluates its loop test.
HBWhile(i) ==
    /\ i <= hbCall
    /\ hbThread[i] = "while"
    /\ hbThread' = [hbThread EXCEPT
                       ![i] = IF heartbeat_continues(hbFlag[i], hbElapsed[i])
                              THEN "sleep" ELSE "done"]
    /\ UNCHANGED <<hbMain, hbCall, hbExit, hbFlag, hbElapsed, hbSent, hbLate>>
    /\ UNCHANGED <<runvars, gitvars, auxvars>>

\* "time.sleep(10)" returns; "elapsed += 10".
HBSleep(i) ==
    /\ i <= hbCall
    /\ hbThread[i] = "sleep"
    /\ hbElapsed' = [hbElapsed EXCEPT ![i] = @ + HeartbeatStep]
    /\ hbThread' = [hbThread EXCEPT ![i] = "if"]
    /\ UNCHANGED <<hbMain, hbCall, hbExit, hbFlag, hbSent, hbLate>>
    /\ UNCHANGED <<runvars, gitvars, auxvars>>

\* "if process_running['status']:"
HBIf(i) ==
    /\ i <= hbCall
    /\ hbThread[i] = "if"
    /\ hbThread' = [hbThread EXCEPT
                       ![i] = IF hbFlag[i] THEN "emit" ELSE "while"]
    /\ UNCHANGED <<hbMain, hbCall, hbExit, hbFlag, hbElapsed, hbSent, hbLate>>
    /\ UNCHANGED <<runvars, gitvars, auxvars>>

\* The "Tests still running" event.  ok: the sink takes it; otherwise the
\* exception ends the thread.
HBEmit(i) ==
    /\ i <= hbCall
    /\ hbThread[i] = "emit"
    /\ hbSent' = [hbSent EXCEPT ![i] = @ + 1]
    /\ hbLate' = [hbLate EXCEPT
                     ![i] = IF hbExit[i] # "running" THEN @ + 1 ELSE @]
    /\ \E ok \in BOOLEAN :
          hbThread' = [hbThread EXCEPT ![i] = IF ok THEN "while" ELSE "done"]
    /\ UNCHANGED <<hbMain, hbCall, hbExit, hbFlag, hbElapsed>>
    /\ UNCHANGED <<runvars, gitvars, auxvars>>

HBThreadStep(i) == HBWhile(i) \/ HBSleep(i) \/ HBIf(i) \/ HBEmit(i)

NextHB ==
    \/ HBStart
    \/ HBPopen
    \/ HBCommunicate
    \/ HBTimeout
    \/ HBLog
    \/ HBExcept
    \/ \E i \in 1..MaxCalls : HBWhile(i)
    \/ \E i \in 1..MaxCalls : HBSleep(i)
    \/ \E i \in 1..MaxCalls : HBIf(i)
    \/ \E i \in 1..MaxCalls : HBEmit(i)

SpecHB == InitHB /\ [][NextHB]_vars

\* The threads are scheduled: a heartbeat thread that can take a step
\* eventually takes one.
SpecHBFair ==
    SpecHB /\ \A i \in 1..MaxCalls : WF_vars(HBThreadStep(i))

-----------------------------------------------------------------------------
(* Python's str and list operations, as FixEngine uses them.  Source text   *)
(* and diagnostic messages are strings; a character is a string of length   *)
(* one; a file is the sequence of lines readlines() returns, each with its  *)
(* "\n".  Positions count from 1, and 0 stands for "not found".             *)

\* s[i - 1] of Python, and "" outside the string.
Char(s, i) == IF i >= 1 /\ i <= Len(s) THEN SubSeq(s, i, i) ELSE ""
From(s, i) == SubSeq(s, i, Len(s))

Least(S) == CHOOSE i \in S : \A j \in S : i <= j
Greatest(S) == CHOOSE i \in S : \A j \in S : j <= i

\* sub occurs in s at position i.
StartsAt(s, sub, i) ==
    /\ i >= 1
    /\ i + Len(sub) - 1 <= Len(s)
    /\ SubSeq(s, i, i + Len(sub) - 1) = sub

\* str.find, from position "from" on.
find(s, sub, from) ==
    LET hits == {i \in from..(Len(s) - Len(sub) + 1) : StartsAt(s, sub, i)}
    IN  IF hits = {} THEN 0 ELSE Least(hits)

\* "sub in s"
contains(s, sub) == find(s, sub, 1) # 0

startswith(s, sub) == StartsAt(s, sub, 1)
endswith(s, sub) == StartsAt(s, sub, Len(s) - Len(sub) + 1)

\* str.lstrip(), str.rstrip() and str.strip() with no argument.
lstrip(s) ==
    LET keep == {i \in 1..Len(s) : Char(s, i) \notin Whitespace}
    IN  IF keep = {} THEN "" ELSE From(s, Least(keep))

rstrip(s) ==
    LET keep == {i \in 1..Len(s) : Char(s, i) \notin Whitespace}
    IN  IF keep = {} THEN "" ELSE SubSeq(s, 1, Greatest(keep))

str_strip(s) == lstrip(rstrip(s))

\* str.rstrip(',')
rstrip_comma(s) ==
    LET keep == {i \in 1..Len(s) : Char(s, i) # ","}
    IN  IF keep = {} THEN "" ELSE SubSeq(s, 1, Greatest(keep))

\* ' ' * n
RECURSIVE Spaces(_)
Spaces(n) == IF n <= 0 THEN "" ELSE " " \o Spaces(n - 1)

\* str.count: occurrences that do not overlap, from the left.
RECURSIVE count(_, _)
count(s, sub) ==
    LET i == find(s, sub, 1)
    IN  IF i = 0 THEN 0 ELSE 1 + count(From(s, i + Len(sub)), sub)

\* str.replace(old, new), old not empty.
RECURSIVE replace(_, _, _)
replace(s, old, new) ==
    LET i == find(s, old, 1)
    IN  IF i = 0 THEN s
        ELSE SubSeq(s, 1, i - 1) \o new
                 \o replace(From(s, i + Len(old)), old, new)

\* str.split(sep), sep not empty: the pieces, as a sequence.
RECURSIVE split(_, _)
split(s, sep) ==
    LET i == find(s, sep, 1)
    IN  IF i = 0 THEN <<s>>
        ELSE <<SubSeq(s, 1, i - 1)>> \o split(From(s, i + Len(sep)), sep)

\* str.split(sep, 1)
split1(s, sep) ==
    LET i == find(s, sep, 1)
    IN  IF i = 0 THEN <<s>>
        ELSE <<SubSeq(s, 1, i - 1), From(s, i + Len(sep))>>

\* sep.join(parts)
RECURSIVE join(_, _)
join(sep, parts) ==
    IF parts = <<>> THEN ""
    ELSE IF Len(parts) = 1 THEN parts[1]
    ELSE parts[1] \o sep \o join(sep, Tail(parts))

Lower == "abcdefghijklmnopqrstuvwxyz"
Upper == "ABCDEFGHIJKLMNOPQRSTUVWXYZ"
Digits == "0123456789"

Chars(s) == {Char(s, k) : k \in 1..Len(s)}
UpperChars == Chars(Upper)
WordChars == Chars(Lower) \cup Chars(Upper) \cup Chars(Digits) \cup {"_"}

lower_char(c) == IF c \in UpperChars THEN Char(Lower, find(Upper, c, 1)) ELSE c

\* str.lower()
RECURSIVE lower(_)
lower(s) == IF s = "" THEN "" ELSE lower_char(Head(s)) \o lower(Tail(s))

\* The regular expression classes \w and \s, for one character.
IsWord(c) == c \in WordChars
IsSpace(c) == c \in Whitespace

\* The length of the longest run of \s (of \w) in s from position i on.
RECURSIVE SpaceRun(_, _)
SpaceRun(s, i) ==
    IF i <= Len(s) /\ IsSpace(Char(s, i)) THEN 1 + SpaceRun(s, i + 1) ELSE 0
RECURSIVE WordRun(_, _)
WordRun(s, i) ==
    IF i <= Len(s) /\ IsWord(Char(s, i)) THEN 1 + WordRun(s, i + 1) ELSE 0

\* A regular expression's answer: whether it matched, and its group.
NoMatch == [ok |-> FALSE, text |-> ""]
Match(text) == [ok |-> TRUE, text |-> text]

\* re.search(pre + "(.*?)" + suf, s): the group is the text between the
\* leftmost pre and the first suf after it on the same line.
between(s, pre, suf) ==
    LET ends(i) == {j \in (i + Len(pre))..Len(s) :
                       /\ StartsAt(s, suf, j)
                       /\ ~contains(SubSeq(s, i + Len(pre), j - 1), "\n")}
        starts  == {i \in 1..Len(s) : StartsAt(s, pre, i) /\ ends(i) # {}}
    IN  IF starts = {} THEN NoMatch
        ELSE LET i == Least(starts)
             IN  Match(SubSeq(s, i + Len(pre), Least(ends(i)) - 1))

\* The index, counted from 1, that Python's lines[k] reads; 0 when it raises
\* IndexError.  A negative k counts from the end.
PyIndex(n, k) ==
    IF k >= 0 THEN (IF k < n THEN k + 1 ELSE 0)
    ELSE (IF -k <= n THEN n + k + 1 ELSE 0)

\* list.insert(k, x): before index k, clamped to the ends of the list.
list_insert(lines, k, x) ==
    LET n   == Len(lines)
        pos == IF k >= 0 THEN (IF k > n THEN n ELSE k)
               ELSE (IF n + k < 0 THEN 0 ELSE n + k)
    IN  SubSeq(lines, 1, pos) \o <<x>> \o SubSeq(lines, pos + 1, n)

\* del lines[i], i counted from 1.
list_delete(lines, i) ==
    SubSeq(lines, 1, i - 1) \o SubSeq(lines, i + 1, Len(lines))

\* lines[i] = x, i counted from 1.
list_set(lines, i, x) == [lines EXCEPT ![i] = x]

-----------------------------------------------------------------------------
(* FixEngine (fixer.py).  A rule that works on the list "lines" gives back *)
(* [fixed, lines]: what it returned and the list as it left it.  The files   *)
(* of the repository are a function from path to file.                      *)

\* f.readlines() of the text that f.writelines(lines) wrote: the lines are
\* cut again after every "\n".
RECURSIVE readlines(_)
readlines(text) ==
    LET i == find(text, "\n", 1)
    IN  IF text = "" THEN <<>>
        ELSE IF i = 0 THEN <<text>>
        ELSE <<SubSeq(text, 1, i)>> \o readlines(From(text, i + 1))

\* A file with these lines, and a path with no file.
File(lines) == [exists |-> TRUE, lines |-> lines]
NoFile == [exists |-> FALSE, lines |-> <<>>]

\* os.path.exists(file_path), and readlines() of the file.
exists(files, path) == files[path].exists
read(files, path) == files[path].lines

\* open(file_path, 'w').writelines(lines)
writelines(files, path, lines) ==
    [files EXCEPT ![path] = File(readlines(join("", lines)))]

Kept(lines) == [fixed |-> FALSE, lines |-> lines]
Edited(lines, line_num, text) ==
    [fixed |-> TRUE, lines |-> list_set(lines, line_num, text)]

\* len(line) - len(line.lstrip())
indent_of(line) == Len(line) - Len(lstrip(line))

keywords == <<"def ", "class ", "if ", "for ", "while ", "elif ", "else",
              "try:", "except", "finally", "with ">>

\* _fix_missing_colon
fix_missing_colon(lines, line_num, line) ==
    IF \E k \in 1..Len(keywords) : contains(line, keywords[k])
    THEN LET parts        == split1(line, "#")
             code_part    == IF contains(line, "#") THEN rstrip(parts[1])
                             ELSE rstrip(line)
             comment_part == IF contains(line, "#") THEN " #" \o parts[2]
                             ELSE ""
         IN  IF ~endswith(code_part, ":") /\ ~endswith(code_part, "\\")
             THEN Edited(lines, line_num,
                         code_part \o ":" \o comment_part \o "\n")
             ELSE Kept(lines)
    ELSE Kept(lines)

\* Where "$" matches without re.MULTILINE: the last character before a final
\* "\n", or the last character.
LineEnd(line) == IF endswith(line, "\n") THEN Len(line) - 1 ELSE Len(line)

\* re.search(r'print\s+(["\'].*["\']|[^\n]+)$', line).  Both alternatives
\* end at "$", so the group is the rest of the line after the white space
\* that follows the leftmost "print" that has some.
print_content(line) ==
    LET E      == LineEnd(line)
        ok(i)  == /\ StartsAt(line, "print", i)
                  /\ SpaceRun(line, i + 5) >= 1
                  /\ i + 6 <= E
                  /\ ~contains(SubSeq(line, i + 5, E), "\n")
        starts == {i \in 1..Len(line) : ok(i)}
    IN  IF starts = {} THEN NoMatch
        ELSE LET i == Least(starts)
                 g == i + 5 + SpaceRun(line, i + 5)
                 c == IF g <= E THEN g ELSE E
             IN  Match(SubSeq(line, c, E))

\* _fix_print_statement
fix_print_statement(lines, line_num, line) ==
    LET match == print_content(line)
    IN  IF match.ok
        THEN Edited(lines, line_num,
                    Spaces(indent_of(line)) \o "print(" \o match.text
                        \o ")\n")
        ELSE Kept(lines)

\* One match of r'if\s+(\w+)\s*=\s*([^=])' at position i of s: the name, the
\* character of the second group and the position after the match.  The
\* \s* before the second group gives back one character when what follows
\* it is "=" or the end of s.
if_assign_at(s, i) ==
    LET w1 == SpaceRun(s, i + 2)
        a  == i + 2 + w1
        n  == WordRun(s, a)
        q  == a + n
        w2 == SpaceRun(s, q)
        r  == q + w2 + 1
        w3 == SpaceRun(s, r)
        e  == r + w3
        no == [ok |-> FALSE, name |-> "", g2 |-> "", next |-> 0]
    IN  IF ~(StartsAt(s, "if", i) /\ w1 >= 1 /\ n >= 1
             /\ Char(s, q + w2) = "=")
        THEN no
        ELSE IF e <= Len(s) /\ Char(s, e) # "="
        THEN [ok |-> TRUE, name |-> SubSeq(s, a, q - 1), g2 |-> Char(s, e),
              next |-> e + 1]
        ELSE IF w3 >= 1
        THEN [ok |-> TRUE, name |-> SubSeq(s, a, q - 1),
              g2 |-> Char(s, e - 1), next |-> e]
        ELSE no

\* re.sub(r'if\s+(\w+)\s*=\s*([^=])', r'if \1 == \2', s)
RECURSIVE sub_if_assign(_)
sub_if_assign(s) ==
    LET starts == {i \in 1..Len(s) : if_assign_at(s, i).ok}
    IN  IF starts = {} THEN s
        ELSE LET i == Least(starts)
                 m == if_assign_at(s, i)
             IN  SubSeq(s, 1, i - 1) \o "if " \o m.name \o " == " \o m.g2
                     \o sub_if_assign(From(s, m.next))

\* _fix_comparison_operator disabled, as _fix_missing_comma is.
fix_comparison_operator_off(lines, line_num, line) == Kept(lines)

\* _fix_comparison_operator
fix_comparison_operator(lines, line_num, line) ==
    IF contains(line, "if ")
    THEN LET fixed_line == sub_if_assign(line)
         IN  IF fixed_line # line THEN Edited(lines, line_num, fixed_line)
             ELSE Kept(lines)
    ELSE Kept(lines)

\* _fix_missing_comma and _fix_quote_mismatch: disabled, they return False.
fix_missing_comma(lines, line_num, line) == Kept(lines)
fix_quote_mismatch(lines, line_num, line) == Kept(lines)

\* _fix_unclosed_string
fix_unclosed_string(lines, line_num, line) ==
    LET stripped      == rstrip(line)
        single_quotes == count(stripped, "'") - count(stripped, "\\'")
        double_quotes == count(stripped, "\"") - count(stripped, "\\\"")
    IN  IF single_quotes % 2 = 1 /\ ~endswith(stripped, "'")
        THEN Edited(lines, line_num, rstrip(line) \o "'\n")
        ELSE IF double_quotes % 2 = 1 /\ ~endswith(stripped, "\"")
        THEN Edited(lines, line_num, rstrip(line) \o "\"\n")
        ELSE Kept(lines)

\* _fix_empty_block: the line is overwritten.
fix_empty_block(lines, line_num, line) ==
    IF line_num > 1 /\ endswith(rstrip(lines[line_num - 1]), ":")
    THEN Edited(lines, line_num,
                Spaces(indent_of(lines[line_num - 1]) + 4) \o "pass\n")
    ELSE Kept(lines)

\* What a rule function gives back: its return value, the files as it left
\* them, and whether it ended in an exception instead of returning.
Ret(ret, files) == [ret |-> ret, files |-> files, raised |-> FALSE]
Raises(files) == [ret |-> FALSE, files |-> files, raised |-> TRUE]

\* The chain of sub-rules of _fix_syntax, first match wins.
syntax_rule(message, lines, line_num, line) ==
    IF contains(message, "expected ':'") \/ contains(message, "expected \":\"")
    THEN fix_missing_colon(lines, line_num, line)
    ELSE IF contains(message, "Missing parentheses in call to 'print'")
    THEN fix_print_statement(lines, line_num, line)
    ELSE IF /\ contains(lower(message), "invalid syntax")
            /\ contains(line, "=")
            /\ contains(line, "if ")
    THEN fix_comparison_operator(lines, line_num, line)
    ELSE IF /\ contains(lower(message), "invalid syntax")
            /\ \E c \in {"[", "{", "("} : contains(line, c)
    THEN fix_missing_comma(lines, line_num, line)
    ELSE IF \/ contains(message, "EOL while scanning string literal")
            \/ contains(lower(message), "unterminated string")
    THEN fix_unclosed_string(lines, line_num, line)
    ELSE IF contains(message, "expected an indented block")
    THEN fix_empty_block(lines, line_num, line)
    ELSE IF /\ contains(lower(message), "invalid syntax")
            /\ (contains(line, "\"") \/ contains(line, "'"))
    THEN fix_quote_mismatch(lines, line_num, line)
    ELSE Kept(lines)

\* The end of _fix_syntax: the missing-colon rule once more when the chain
\* fixed nothing, then the file is written when a rule fixed the line.
syntax_fallback(first, lines, line_num, line) ==
    IF first.fixed THEN first ELSE fix_missing_colon(lines, line_num, line)

\* syntax_write with the report lost: the file is written and the rule
\* reports False.
syntax_write_unreported(last, files, path) ==
    IF last.fixed THEN Ret(FALSE, writelines(files, path, last.lines))
    ELSE Ret(FALSE, files)

syntax_write(last, files, path) ==
    IF last.fixed THEN Ret(TRUE, writelines(files, path, last.lines))
    ELSE Ret(FALSE, files)

fix_syntax_lines(error, files, lines) ==
    IF error.line > Len(lines) \/ error.line < 1 THEN Ret(FALSE, files)
    ELSE syntax_write(
             syntax_fallback(
                 syntax_rule(error.message, lines, error.line,
                             lines[error.line]),
                 lines, error.line, lines[error.line]),
             files, error.file)

\* _fix_syntax
fix_syntax(error, files) ==
    IF ~exists(files, error.file) THEN Ret(FALSE, files)
    ELSE fix_syntax_lines(error, files, read(files, error.file))

\* _fix_indentation without its last branch: an under-indented line is
\* not raised to the previous line's indent.
fix_indentation_no_raise(error, files) ==
    LET lines == read(files, error.file)
    IN  IF ~exists(files, error.file) THEN Ret(FALSE, files)
        ELSE IF error.line > Len(lines) \/ error.line < 1
        THEN Ret(FALSE, files)
        ELSE
        LET L                == error.line
            tabbed           == contains(lines[L], "\t")
            current_line     == replace(lines[L], "\t", "    ")
            current_stripped == lstrip(current_line)
            prev_line        == lines[L - 1]
            prev_stripped    == lstrip(prev_line)
            prev_indent      == Len(prev_line) - Len(prev_stripped)
            current_indent   == Len(current_line) - Len(current_stripped)
            expected_indent  == prev_indent + 4
            opens            == /\ L > 1
                                /\ current_stripped # ""
                                /\ endswith(rstrip(prev_stripped), ":")
                                /\ current_indent # expected_indent
        IN  IF tabbed \/ opens
            THEN Ret(TRUE, writelines(files, error.file,
                     list_set(lines, L,
                         IF opens
                         THEN Spaces(expected_indent) \o current_stripped
                         ELSE current_line)))
            ELSE Ret(FALSE, files)

\* _fix_indentation
fix_indentation(error, files) ==
    LET lines == read(files, error.file)
    IN  IF ~exists(files, error.file) THEN Ret(FALSE, files)
        ELSE IF error.line > Len(lines) \/ error.line < 1
        THEN Ret(FALSE, files)
        ELSE
        LET L                == error.line
            tabbed           == contains(lines[L], "\t")
            current_line     == replace(lines[L], "\t", "    ")
            current_stripped == lstrip(current_line)
            prev_line        == lines[L - 1]
            prev_stripped    == lstrip(prev_line)
            prev_indent      == Len(prev_line) - Len(prev_stripped)
            current_indent   == Len(current_line) - Len(current_stripped)
            expected_indent  == prev_indent + 4
            new_line ==
                IF L > 1 /\ current_stripped # ""
                THEN IF endswith(rstrip(prev_stripped), ":")
                     THEN IF current_indent # expected_indent
                          THEN Spaces(expected_indent) \o current_stripped
                          ELSE current_line
                     ELSE IF current_indent < prev_indent
                     THEN Spaces(prev_indent) \o current_stripped
                     ELSE current_line
                ELSE current_line
            fixed ==
                \/ tabbed
                \/ /\ L > 1
                   /\ current_stripped # ""
                   /\ IF endswith(rstrip(prev_stripped), ":")
                      THEN current_indent # expected_indent
                      ELSE current_indent < prev_indent
        IN  IF fixed
            THEN Ret(TRUE, writelines(files, error.file,
                                      list_set(lines, L, new_line)))
            ELSE Ret(FALSE, files)

\* re.search(pre + r"(\w+)" + suf, s): the group is a run of \w.
word_between(s, pre, suf) ==
    LET a(i)   == i + Len(pre)
        ok(i)  == /\ StartsAt(s, pre, i)
                  /\ WordRun(s, a(i)) >= 1
                  /\ StartsAt(s, suf, a(i) + WordRun(s, a(i)))
        starts == {i \in 1..Len(s) : ok(i)}
    IN  IF starts = {} THEN NoMatch
        ELSE LET i == Least(starts)
             IN  Match(SubSeq(s, a(i), a(i) + WordRun(s, a(i)) - 1))

\* re.search(rf'\b{name}\b', s), and with only one of the two \b.
word_at(s, name, i, left, right) ==
    /\ StartsAt(s, name, i)
    /\ left => ~IsWord(Char(s, i - 1))
    /\ right => ~IsWord(Char(s, i + Len(name)))
has_word(s, name) ==
    \E i \in 1..Len(s) : word_at(s, name, i, TRUE, TRUE)

typing_names == {"List", "Dict", "Optional", "Set", "Tuple", "Union", "Any",
                 "Callable", "Iterable", "Mapping", "Sequence", "TypeVar",
                 "Generic"}

\* The names the scan of _extract_undefined_name can return: the loop runs
\* over a set, whose order changes from one process to the next, and
\* returns the first name used as an annotation and not on the line of the
\* typing import.
scan_names == {"List", "Dict", "Optional", "Set", "Tuple", "Union", "Any",
               "Callable"}
scan_candidates(content) ==
    {name \in scan_names :
        /\ \/ \E i \in 1..Len(content) :
                 word_at(content, name \o "[", i, TRUE, FALSE)
           \/ \E i \in 1..Len(content) :
                 word_at(content, ": " \o name, i, FALSE, TRUE)
        /\ \/ ~contains(content, "from typing import")
           \/ ~contains(split(split(content, "from typing import")[2],
                              "\n")[1], name)}

\* _extract_undefined_name; scanned is the name the scan loop comes to
\* first, "" for none.
extract_undefined_name(message, scanned) ==
    LET match == word_between(message, "name '", "' is not defined")
    IN  IF match.ok THEN match.text ELSE scanned

\* _add_typing_import
add_typing_import(files, path, lines, type_name) ==
    LET typing == {i \in 1..Len(lines) :
                      startswith(lines[i], "from typing import")}
        stop   == IF typing = {} THEN Len(lines) + 1 ELSE Least(typing)
        others == {i \in 1..(stop - 1) :
                      \/ startswith(lines[i], "import ")
                      \/ startswith(lines[i], "from ")}
        insert_pos == IF others = {} THEN 0 ELSE Greatest(others)
    IN  IF typing # {}
        THEN IF has_word(lines[stop], type_name)
             THEN Ret(FALSE, files)
             ELSE Ret(TRUE, writelines(files, path,
                      list_set(lines, stop,
                          rstrip_comma(rstrip(lines[stop])) \o ", "
                              \o type_name \o "\n")))
        ELSE Ret(TRUE, writelines(files, path,
                 list_insert(lines, insert_pos,
                     "from typing import " \o type_name \o "\n")))

\* re.search(r"not '?(\w+)'?", message)
not_type(message) ==
    LET a(i)   == IF Char(message, i + 4) = "'"
                     /\ WordRun(message, i + 5) >= 1
                  THEN i + 5 ELSE i + 4
        ok(i)  == StartsAt(message, "not ", i) /\ WordRun(message, a(i)) >= 1
        starts == {i \in 1..Len(message) : ok(i)}
    IN  IF starts = {} THEN NoMatch
        ELSE LET i == Least(starts)
             IN  Match(SubSeq(message, a(i),
                              a(i) + WordRun(message, a(i)) - 1))

\* re.sub(r'(\+\s*)(\w+)(\s*\+|\s*$)', add_str_conversion, line, count=1)
add_str(line) ==
    LET a(i)   == i + 1 + SpaceRun(line, i + 1)
        q(i)   == a(i) + WordRun(line, a(i))
        e(i)   == q(i) + SpaceRun(line, q(i))
        ok(i)  == /\ Char(line, i) = "+"
                  /\ WordRun(line, a(i)) >= 1
                  /\ (Char(line, e(i)) = "+" \/ e(i) = Len(line) + 1)
        starts == {i \in 1..Len(line) : ok(i)}
    IN  IF starts = {} THEN line
        ELSE LET i == Least(starts)
             IN  SubSeq(line, 1, a(i) - 1) \o "str("
                     \o SubSeq(line, a(i), q(i) - 1) \o ")" \o From(line, q(i))

\* _fix_string_concatenation
fix_string_concatenation(files, path, lines, line_num, message) ==
    LET idx      == PyIndex(Len(lines), line_num - 1)
        var_type == not_type(message)
    IN  IF line_num > Len(lines) THEN Ret(FALSE, files)
        ELSE IF idx = 0 THEN Raises(files)
        ELSE IF ~var_type.ok THEN Ret(FALSE, files)
        ELSE IF var_type.text \in {"int", "float", "bool"}
                /\ add_str(lines[idx]) # lines[idx]
        THEN Ret(TRUE, writelines(files, path,
                 list_set(lines, idx, add_str(lines[idx]))))
        ELSE Ret(FALSE, files)

\* _fix_operand_type rewriting the line as _fix_string_concatenation does.
fix_operand_type_edits(files, path, lines, line_num, message) ==
    IF line_num \in 1..Len(lines)
    THEN Ret(TRUE, writelines(files, path,
             list_set(lines, line_num, add_str(lines[line_num]))))
    ELSE Ret(FALSE, files)

\* _fix_operand_type: skipped by the code, it returns False.
fix_operand_type(files, path, lines, line_num, message) == Ret(FALSE, files)

\* _fix_type_error
fix_type_error(error, files, scanned) ==
    LET lines == read(files, error.file)
        name  == extract_undefined_name(error.message, scanned)
    IN  IF ~exists(files, error.file) THEN Ret(FALSE, files)
        ELSE IF /\ contains(error.message, "is not defined")
                /\ name # ""
                /\ name \in typing_names
        THEN add_typing_import(files, error.file, lines, name)
        ELSE IF \/ contains(error.message, "can only concatenate str")
                \/ contains(error.message, "must be str, not")
        THEN fix_string_concatenation(files, error.file, lines, error.line,
                                      error.message)
        ELSE IF /\ contains(lower(error.message), "missing")
                /\ contains(lower(error.message),
                            "required positional argument")
        THEN Ret(FALSE, files)
        ELSE IF contains(lower(error.message), "unsupported operand type")
        THEN fix_operand_type(files, error.file, lines, error.line,
                              error.message)
        ELSE Ret(FALSE, files)

\* _comment_out_import
comment_out_import(files, path, lines, module_name) ==
    LET hits == {i \in 1..Len(lines) :
                    /\ \/ contains(lines[i], "import " \o module_name)
                       \/ contains(lines[i], "from " \o module_name)
                    /\ ~startswith(str_strip(lines[i]), "#")}
    IN  IF hits = {} THEN Ret(FALSE, files)
        ELSE Ret(TRUE, writelines(files, path,
                 list_set(lines, Least(hits), "# " \o lines[Least(hits)])))

\* The import list of _remove_from_import without the names that contain
\* import_name.
import_list(imports, import_name) ==
    LET all     == split(imports, ",")
        NotIt(imp) == ~contains(str_strip(imp), import_name)
        kept    == SelectSeq(all, NotIt)
    IN  [k \in 1..Len(kept) |-> str_strip(kept[k])]

\* _remove_from_import
remove_from_import(files, path, lines, import_name) ==
    LET hits == {i \in 1..Len(lines) :
                    /\ contains(lines[i], "from ")
                    /\ contains(lines[i], import_name)
                    /\ Len(split(lines[i], "import")) = 2}
    IN  IF hits = {} THEN Ret(FALSE, files)
        ELSE LET i     == Least(hits)
                 parts == split(lines[i], "import")
                 list  == import_list(parts[2], import_name)
                 text  == IF list # <<>>
                          THEN parts[1] \o "import " \o join(", ", list)
                                   \o "\n"
                          ELSE "# " \o lines[i]
             IN  Ret(TRUE, writelines(files, path, list_set(lines, i, text)))

\* re.search(r"cannot import name '(.*?)'", message, re.IGNORECASE): the
\* words are found whatever their case, the group keeps the message's.
cannot_import_name(message) ==
    LET low == between(lower(message), "cannot import name '", "'")
        i   == find(lower(message), "cannot import name '" \o low.text \o "'",
                    1)
    IN  IF ~low.ok THEN NoMatch
        ELSE Match(SubSeq(message, i + 20, i + 19 + Len(low.text)))

\* _fix_relative_import: skipped by the code, it returns False.
fix_relative_import(files, path, lines, line_num) == Ret(FALSE, files)

\* _fix_import
fix_import(error, files) ==
    LET lines        == read(files, error.file)
        module_match == between(error.message, "No module named '", "'")
        name_match   == cannot_import_name(error.message)
    IN  IF ~exists(files, error.file) THEN Ret(FALSE, files)
        ELSE IF module_match.ok
        THEN comment_out_import(files, error.file, lines, module_match.text)
        ELSE IF contains(lower(error.message), "cannot import name")
                /\ name_match.ok
        THEN remove_from_import(files, error.file, lines, name_match.text)
        ELSE IF contains(lower(error.message), "attempted relative import")
        THEN fix_relative_import(files, error.file, lines, error.line)
        ELSE Ret(FALSE, files)

\* The line _initialize_variable inserts.
init_line(indent, var_name) ==
    Spaces(indent) \o var_name \o " = None  # AI-AGENT: Auto-initialized\n"

\* _initialize_variable
initialize_variable(files, path, lines, var_name, line_num) ==
    LET idx == PyIndex(Len(lines), line_num - 1)
    IN  IF line_num > Len(lines) THEN Ret(FALSE, files)
        ELSE IF idx = 0 THEN Raises(files)
        ELSE Ret(TRUE, writelines(files, path,
                 list_insert(lines, line_num - 1,
                             init_line(indent_of(lines[idx]), var_name))))

\* _fix_attribute_error: it returns False.
fix_attribute_error(files, path, lines, line_num, message) ==
    Ret(FALSE, files)

\* _fix_logic
fix_logic(error, files) ==
    LET lines     == read(files, error.file)
        var_match == between(error.message, "name '", "' is not defined")
    IN  IF ~exists(files, error.file) THEN Ret(FALSE, files)
        ELSE IF /\ \/ contains(error.message, "name '.*?' is not defined")
                   \/ contains(error.message, "is not defined")
                /\ var_match.ok
        THEN initialize_variable(files, error.file, lines, var_match.text,
                                 error.line)
        ELSE IF contains(lower(error.message), "has no attribute")
        THEN fix_attribute_error(files, error.file, lines, error.line,
                                 error.message)
        ELSE IF contains(lower(error.message), "division by zero")
        THEN Ret(FALSE, files)
        ELSE IF contains(lower(error.message), "index out of range")
        THEN Ret(FALSE, files)
        ELSE Ret(FALSE, files)

\* _remove_unused_import
remove_unused_import(files, path, lines, line_num) ==
    LET idx == PyIndex(Len(lines), line_num - 1)
    IN  IF line_num > Len(lines) THEN Ret(FALSE, files)
        ELSE IF idx = 0 THEN Raises(files)
        ELSE IF contains(lower(lines[idx]), "import")
        THEN Ret(TRUE, writelines(files, path, list_delete(lines, idx)))
        ELSE Ret(FALSE, files)

\* _remove_trailing_whitespace
remove_trailing_whitespace(files, path, lines, line_num) ==
    LET idx == PyIndex(Len(lines), line_num - 1)
    IN  IF line_num > Len(lines) THEN Ret(FALSE, files)
        ELSE IF idx = 0 THEN Raises(files)
        ELSE Ret(TRUE, writelines(files, path,
                 list_set(lines, idx, rstrip(lines[idx]) \o "\n")))

\* _remove_unused_variable: it returns False.
remove_unused_variable(files, path, lines, line_num) == Ret(FALSE, files)

\* _fix_linting
fix_linting(error, files) ==
    LET lines == read(files, error.file)
        low   == lower(error.message)
    IN  IF ~exists(files, error.file) THEN Ret(FALSE, files)
        ELSE IF contains(low, "unused import")
                \/ contains(low, "imported but unused")
        THEN remove_unused_import(files, error.file, lines, error.line)
        ELSE IF contains(low, "unused variable")
        THEN remove_unused_variable(files, error.file, lines, error.line)
        ELSE IF contains(low, "trailing whitespace")
        THEN remove_trailing_whitespace(files, error.file, lines, error.line)
        ELSE Ret(FALSE, files)

\* The rule function apply_fix hands the record to.
rule_of(error, files, scanned) ==
    IF error.type = "SYNTAX" THEN fix_syntax(error, files)
    ELSE IF error.type = "INDENTATION" THEN fix_indentation(error, files)
    ELSE IF error.type = "TYPE_ERROR"
    THEN fix_type_error(error, files, scanned)
    ELSE IF error.type = "IMPORT" THEN fix_import(error, files)
    ELSE IF error.type = "LOGIC" THEN fix_logic(error, files)
    ELSE IF error.type = "LINTING" THEN fix_linting(error, files)
    ELSE Ret(FALSE, files)

\* apply_fix around the rule function's result r: an exception of the rule
\* becomes False; the files stay as the rule left them.
apply_fix_result(type, r) ==
    [ret   |-> apply_fix(type, IF r.raised THEN "raise"
                               ELSE IF r.ret THEN "fixed" ELSE "declined").ret,
     files |-> r.files]

\* FixEngine.apply_fix on the files of the repository: what it returns and
\* the files as it leaves them.
apply_fix_files(error, files, scanned) ==
    apply_fix_result(error.type, rule_of(error, files, scanned))

-----------------------------------------------------------------------------
(* apply_fix on a repository of two files: the file of the record, drawn    *)
(* from every file of at most MaxFileLines lines of LinePool, and another    *)
(* file.  The record is dispatched, and then dispatched a second time.       *)

FixFile == "app.py"
OtherFile == "util.py"

LinePool == {"if x = 5:\n", "import foo_sdk\n", "import foo\n",
             "from m import a, b\n", "from m import ab, a\n", "def f():\n",
             "x = v\n", "\tprint v\n", "    y = 's  \n",
             "    n = 'a' + n\n", "def g()\n", "x: List[int] = []\n", "\n"}

\* The file of the record: every sequence of at most MaxFileLines lines, and
\* no file at all.
FilePool ==
    {File(lines) : lines \in UNION {[1..n -> LinePool] : n \in 0..MaxFileLines}}
        \cup {NoFile}

OtherLines == <<"import foo\n", "from m import a\n">>

\* The kinds and messages of the records dispatched.
TypeMessages ==
    ({"SYNTAX"} \X {"expected ':'", "Missing parentheses in call to 'print'",
                    "invalid syntax", "unterminated string literal",
                    "expected an indented block"})
    \cup ({"INDENTATION"} \X {"unexpected indent"})
    \cup ({"TYPE_ERROR"} \X {"name 'List' is not defined",
                             "List is not defined",
                             "must be str, not int",
                             "can only concatenate str (not \"int\") to str",
                             "missing 1 required positional argument: 'x'",
                             "unsupported operand type(s) for +: 'int' and 'str'"})
    \cup ({"IMPORT"} \X {"No module named 'foo'",
                         "cannot import name 'a' from 'm'",
                         "attempted relative import with no known parent package"})
    \cup ({"LOGIC"} \X {"name 'v' is not defined",
                        "'NoneType' object has no attribute 'x'",
                        "division by zero", "list index out of range"})
    \cup ({"LINTING"} \X {"'foo' imported but unused", "unused variable 'x'",
                          "trailing whitespace"})
    \cup ({"UNKNOWN"} \X {"invalid syntax"})

\* The line numbers of the records: 0 when the classifier found none, and
\* one past the longest file.
LineNumbers == 0..(MaxFileLines + 1)

ErrorInfo(type, message, line) ==
    [file |-> FixFile, line |-> line, type |-> type, message |-> message]

InitFix ==
    /\ RunIdle
    /\ GitIdle
    /\ HBIdle
    /\ SbIdle
    /\ ItIdle
    /\ \E file \in FilePool :
          fxFiles = [p \in {FixFile, OtherFile} |->
                        IF p = FixFile THEN file ELSE File(OtherLines)]
    /\ \E tm \in TypeMessages, line \in LineNumbers :
          fxError = ErrorInfo(tm[1], tm[2], line)
    /\ fxHist = <<>>
    /\ fxRet = <<>>

\* The names the scan of _extract_undefined_name can come to first.
Scanned(files) ==
    LET found == IF ~exists(files, FixFile) THEN {}
                 ELSE scan_candidates(join("", read(files, FixFile)))
    IN  IF found = {} THEN {""} ELSE found

\* One call of apply_fix with the record.
Dispatch ==
    \E scanned \in Scanned(fxFiles) :
        \E r \in {apply_fix_files(fxError, fxFiles, scanned)} :
            /\ fxFiles' = r.files
            /\ fxHist' = Append(fxHist, fxFiles)
            /\ fxRet' = Append(fxRet, r.ret)
            /\ UNCHANGED fxError

FixDispatch ==
    /\ Len(fxRet) = 0
    /\ Dispatch
    /\ UNCHANGED <<runvars, gitvars, hbvars, sbvars, itvars>>

\* The same record dispatched once more, on the files as the first call
\* left them.
FixAgain ==
    /\ Len(fxRet) = 1
    /\ Dispatch
    /\ UNCHANGED <<runvars, gitvars, hbvars, sbvars, itvars>>

NextFix == FixDispatch \/ FixAgain

SpecFix == InitFix /\ [][NextFix]_vars

-----------------------------------------------------------------------------
(* The fix loop of one iteration (DockerRunner.run, "for error in errors"):  *)
(* the records of one classification are dispatched in order on the same    *)
(* checkout, and each dispatch that returns True is committed.  The git     *)
(* index and the commits hold file contents.                                *)

\* repo.index.add([file_path]): the file is staged as it is in the working
\* tree.
index_add(index, files, path) == [index EXCEPT ![path] = files[path]]

\* repo.index.commit(message): a commit of the whole index.  of: the
\* position in errors of the record whose handling created it.
index_commit(log, index, message, of) ==
    Append(log, [message |-> message, tree |-> index, of |-> of])

\* How the commit of a fix can end: "add_error" (index.add raises),
\* "commit_error" (index.commit raises), "emit_error" (the commit is made and
\* the "Fixed" progress emission raises), "ok".
CommitEnds == {"ok", "add_error", "commit_error", "emit_error"}

\* GitHandler.commit_fix on the index and the commits.
commit_fix_index(index, log, files, error, of, end) ==
    LET msg    == CommitMessage(error.type, error.file, error.line)
        staged == index_add(index, files, error.file)
    IN  IF end = "add_error"
        THEN [raised |-> TRUE, index |-> index, log |-> log, message |-> msg]
        ELSE IF end = "commit_error"
        THEN [raised |-> TRUE, index |-> staged, log |-> log, message |-> msg]
        ELSE [raised |-> FALSE, index |-> staged,
              log |-> index_commit(log, staged, msg, of), message |-> msg]

\* A loop that re-resolves the line of a record after the earlier edits of the
\* iteration: the line moves with the lines inserted or deleted at or above it.
next_error_resolved(errs, idx) ==
    LET grown == IF idx >= 2 /\ Len(fxHist) >= 1
                 THEN Len(read(fxFiles, FixFile))
                          - Len(read(fxHist[1], FixFile))
                 ELSE 0
        moved == IF \/ grown > 0 /\ errs[1].line <= errs[idx].line
                    \/ grown < 0 /\ errs[1].line < errs[idx].line
                 THEN grown
                 ELSE 0
    IN  [errs[idx] EXCEPT !.line = errs[idx].line + moved]

\* The record the loop hands to _apply_and_commit_fix: the element of the
\* list parse_errors returned, as it was classified.
next_error(errs, idx) == errs[idx]

\* _apply_and_commit_fix after apply_fix has returned r.
commit_after_fix(error, r, of, end) ==
    LET c == commit_fix_index(itIndex, itLog, r.files, error, of, end)
    IN  IF r.ret
        THEN [index |-> c.index, log |-> c.log,
              fixes |-> IF end = "ok"
                        THEN Append(itFixes,
                                    FixResult(error, c.message, "Fixed"))
                        ELSE itFixes]
        ELSE [index |-> itIndex, log |-> itLog,
              fixes |-> Append(itFixes, FixResult(error, <<>>, "Failed"))]

IterLines == {"import foo\n", "x = v\n", "if x = 5:\n"}

\* The file of the records: at least one line, at most MaxFileLines + 1.
IterFiles ==
    {File(lines) :
        lines \in UNION {[1..n -> IterLines] : n \in 1..(MaxFileLines + 1)}}

\* The records of a classification: one rule that inserts a line, one that
\* deletes a line and one that rewrites a line.
IterMessages == {<<"LOGIC", "name 'v' is not defined">>,
                 <<"LINTING", "'foo' imported but unused">>,
                 <<"SYNTAX", "invalid syntax">>}

IterRecords(n) ==
    {ErrorInfo(tm[1], tm[2], line) : tm \in IterMessages, line \in 1..n}

\* The checkout after the clone: the index and the last commit hold the
\* files of the working tree, and two records have been classified, each at
\* a line of the file.
InitIter ==
    /\ RunIdle
    /\ GitIdle
    /\ HBIdle
    /\ SbIdle
    /\ \E file \in IterFiles :
          /\ fxFiles = [p \in {FixFile, OtherFile} |->
                           IF p = FixFile THEN file ELSE File(OtherLines)]
          /\ \E e1, e2 \in IterRecords(Len(file.lines)) :
                itErrors = <<e1, e2>>
    /\ fxError = None
    /\ fxHist = <<>>
    /\ fxRet = <<>>
    /\ itIdx = 1
    /\ itIndex = fxFiles
    /\ itLog = <<[message |-> <<>>, tree |-> fxFiles, of |-> 0]>>
    /\ itFixes = <<>>

\* One pass of the body of "for error in errors": _apply_and_commit_fix.
ItFix ==
    /\ itIdx >= 1
    /\ itIdx <= Len(itErrors)
    /\ \E scanned \in Scanned(fxFiles), end \in CommitEnds :
          \E error \in {next_error(itErrors, itIdx)} :
          \E r \in {apply_fix_files(error, fxFiles, scanned)} :
          \E c \in {commit_after_fix(error, r, itIdx, end)} :
              /\ fxFiles' = r.files
              /\ fxHist' = Append(fxHist, fxFiles)
              /\ fxRet' = Append(fxRet, r.ret)
              /\ itIndex' = c.index
              /\ itLog' = c.log
              /\ itFixes' = c.fixes
              /\ itIdx' = itIdx + 1
    /\ UNCHANGED <<fxError, itErrors>>
    /\ UNCHANGED <<runvars, gitvars, hbvars, sbvars>>

NextIter == ItFix

SpecIter == InitIter /\ [][NextIter]_vars

-----------------------------------------------------------------------------
(* One request to the sandbox service, command by command.                  *)

\* _check_auth: TRUE when it raises the 401.
check_auth(secret, header) == secret # "" /\ header # secret

\* The values SANDBOX_TOKEN and the request's header take.
Secrets == {"", "s3cret"}
Headers == {None, "", "s3cret", "guess"}

InitSandbox ==
    /\ RunIdle
    /\ GitIdle
    /\ HBIdle
    /\ FixIdle
    /\ ItIdle
    /\ sbPc = "auth"
    /\ sbSecret \in Secrets
    /\ sbHeader \in Headers
    /\ sbBranch \in {None, "fix"}
    /\ sbCmds = <<>>
    /\ sbRepo = None
    /\ sbProject = None
    /\ sbResp = None

\* run_tests returns (or raises into the framework) with this answer.
SbAnswer(resp) ==
    /\ sbResp' = resp
    /\ sbPc' = "done"

SbCheckAuth ==
    /\ sbPc = "auth"
    /\ IF check_auth(sbSecret, sbHeader)
       THEN SbAnswer(sandbox_run_tests(FALSE, "done", "done", <<>>, <<>>, 0))
       ELSE sbPc' = "clone" /\ UNCHANGED sbResp
    /\ UNCHANGED <<sbSecret, sbHeader, sbBranch, sbCmds, sbRepo, sbProject>>
    /\ UNCHANGED <<runvars, gitvars, hbvars, fixvars, itvars>>

\* The git clone: it makes repo_path, fails and leaves nothing, or runs
\* into its timeout.
SbClone ==
    /\ sbPc = "clone"
    /\ sbCmds' = Append(sbCmds, IF sbBranch # None
                                THEN "git clone --branch" ELSE "git clone")
    /\ \E end \in {"cloned", "absent", "timeout"} :
          IF end = "timeout"
          THEN /\ SbAnswer(sandbox_run_tests(TRUE, "timeout", "done", <<>>,
                                             <<>>, 0))
               /\ UNCHANGED sbRepo
          ELSE /\ sbRepo' = end
               /\ sbPc' = "detect"
               /\ UNCHANGED sbResp
    /\ UNCHANGED <<sbSecret, sbHeader, sbBranch, sbProject>>
    /\ UNCHANGED <<runvars, gitvars, hbvars, fixvars, itvars>>

\* requirements.txt is looked for a second time before the install; it is
\* there exactly when the project type is python.
SbDetect ==
    /\ sbPc = "detect"
    /\ \E package_json, requirements_txt \in BOOLEAN :
          /\ sbRepo = "absent" => (~package_json /\ ~requirements_txt)
          /\ sbProject' = IF package_json THEN "javascript"
                          ELSE IF requirements_txt THEN "python"
                          ELSE "unknown"
    /\ sbPc' = IF sbProject' = "unknown" THEN "test" ELSE "install"
    /\ UNCHANGED <<sbSecret, sbHeader, sbBranch, sbCmds, sbRepo, sbResp>>
    /\ UNCHANGED <<runvars, gitvars, hbvars, fixvars, itvars>>

SbInstall ==
    /\ sbPc = "install"
    /\ sbCmds' = Append(sbCmds, IF sbProject = "javascript"
                                THEN "npm install" ELSE "pip install")
    /\ \E end \in {"done", "timeout", "crash"} :
          IF end = "done"
          THEN sbPc' = "test" /\ UNCHANGED sbResp
          ELSE SbAnswer(sandbox_run_tests(TRUE, "done", end, <<>>, <<>>, 1))
    /\ UNCHANGED <<sbSecret, sbHeader, sbBranch, sbRepo, sbProject>>
    /\ UNCHANGED <<runvars, gitvars, hbvars, fixvars, itvars>>

\* The test command; with no repo_path to run in, subprocess.run raises.
SbTest ==
    /\ sbPc = "test"
    /\ sbCmds' = Append(sbCmds, IF sbProject = "javascript"
                                THEN "npm test" ELSE "pytest")
    /\ \E end \in {"done", "timeout", "crash"}, out \in Stdouts,
          err \in Stderrs, rc \in {0, 1} :
          /\ sbRepo = "absent" => end = "crash"
          /\ end # "done" => (out = <<>> /\ err = <<>> /\ rc = 1)
          /\ SbAnswer(sandbox_run_tests(TRUE, "done", end, out, err, rc))
    /\ UNCHANGED <<sbSecret, sbHeader, sbBranch, sbRepo, sbProject>>
    /\ UNCHANGED <<runvars, gitvars, hbvars, fixvars, itvars>>

NextSandbox ==
    \/ SbCheckAuth
    \/ SbClone
    \/ SbDetect
    \/ SbInstall
    \/ SbTest

SpecSandbox == InitSandbox /\ [][NextSandbox]_vars

-----------------------------------------------------------------------------
(* Properties.                                                              *)

IsFixed(f) == f.status = "Fixed"
FixedOutcomes == SelectSeq(fixes, IsFixed)
Emitted(status, message) ==
    \E i \in 1..Len(progress) : progress[i] = Ev(status, message)
FinalPushTried == \E i \in 1..Len(pushes) : pushes[i].at = "final"
FinalPushFailed ==
    \E i \in 1..Len(pushes) : pushes[i].at = "final" /\ pushes[i].result # "ok"
AfterLoop == pc \in {"final", "report", "done"}

\* C1: the status of the report is PASSED iff there is at least one outcome
\* and every outcome is Fixed, FAILED iff no outcome is Fixed (the empty list
\* included), and PARTIAL in every other case.
C1_StatusFromOutcomes ==
    pc = "done" =>
        LET out      == response.fixes
            anyFixed == \E i \in 1..Len(out) : out[i].status = "Fixed"
            allFixed == \A i \in 1..Len(out) : out[i].status = "Fixed"
        IN  /\ response.status \in {"PASSED", "PARTIAL", "FAILED"}
            /\ response.status = "PASSED" <=> (Len(out) >= 1 /\ allFixed)
            /\ response.status = "FAILED" <=> ~anyFixed
            /\ response.status = "PARTIAL" <=> (anyFixed /\ ~allFixed)

\* A report over a list that holds a Fixed and a Failed outcome.
C1_Witness ==
    /\ pc = "done"
    /\ response.status = "PARTIAL"
    /\ Len(response.fixes) >= 2

\* C2: between two dispatch-and-commit calls the Fixed outcomes correspond
\* one-to-one and in order with the commits the run created, each carries
\* the non-empty message "[AI-AGENT] Fixed {kind} error in {basename} line
\* {line}", and no commit exists without a Fixed outcome.
C2_FixedMatchCommits ==
    /\ Len(FixedOutcomes) = Len(commits)
    /\ \A i \in 1..Len(FixedOutcomes) :
          LET f == FixedOutcomes[i]
          IN  /\ f.commit_message = commits[i]
              /\ f.commit_message # <<>>
              /\ f.commit_message =
                    <<"[AI-AGENT] Fixed ", f.type, " error in ",
                      f.file[Len(f.file)], " line ", f.line>>

\* C3: every dispatch-and-commit call appends exactly one outcome; a call that
\* does not count as a fix appends a Failed outcome with an empty commit
\* message, and the loop goes on to the next failure.
C3_OneOutcomePerCall ==
    [][pc = "fix" =>
          /\ Len(fixes') = Len(fixes) + 1
          /\ fixed_count' = fixed_count =>
                /\ fixes'[Len(fixes')].status = "Failed"
                /\ fixes'[Len(fixes')].commit_message = <<>>
          /\ errIdx' = errIdx + 1]_vars

\* C4: the number of test executions and the iteration count never exceed
\* max_retries; with max_retries = 0 no test runs and the report has
\* iterations = 0.
C4_BudgetBound ==
    /\ testRuns <= max_retries
    /\ iterations <= max_retries
    /\ pc = "done" => response.iterations <= max_retries
    /\ max_retries = 0 =>
          /\ testRuns = 0
          /\ pc = "done" => response.iterations = 0

\* A run that has used its whole budget of two iterations.
C4_Witness ==
    /\ pc = "done"
    /\ max_retries = 2
    /\ testRuns = 2
    /\ response.iterations = 2

EmptyClassified == errors = <<>>

\* C5: once an iteration has classified its output into an empty list, no
\* further test execution, dispatch or commit happens and the iteration
\* count stays.
C5_EmptyStopsLoop ==
    [][EmptyClassified =>
          /\ EmptyClassified'
          /\ pc' \in {"final", "report", "done", "raised"}
          /\ testRuns' = testRuns
          /\ fixes' = fixes
          /\ commits' = commits
          /\ iterations' = iterations]_vars

\* A finished run that stopped on an empty classification with budget left.
C5_Witness ==
    /\ pc = "done"
    /\ EmptyClassified
    /\ iterations < max_retries

ZeroFixStop ==
    /\ AfterLoop
    /\ errors # <<>>
    /\ fixed_count = 0

\* C6: an iteration that classified failures and fixed none of them ends the
\* loop at once, no test runs afterwards, and the status is FAILED when no
\* earlier fix succeeded.
C6_ZeroFixesStop ==
    /\ [][/\ (pc = "iter_end" /\ fixed_count = 0)
                => pc' \in {"final", "raised"}
          /\ ZeroFixStop => /\ (ZeroFixStop' \/ pc' = "raised")
                             /\ testRuns' = testRuns]_vars
    /\ [](pc = "done" /\ ZeroFixStop /\ Len(FixedOutcomes) = 0
            => response.status = "FAILED")

\* A finished run whose first iteration fixed nothing, with budget left.
C6_Witness ==
    /\ pc = "done"
    /\ ZeroFixStop
    /\ iterations < max_retries
    /\ response.status = "FAILED"

\* C7: the final push is attempted iff at least one Fixed outcome exists.
C7_PushIffFixed ==
    pc \in {"report", "done"} => (FinalPushTried <=> Len(FixedOutcomes) > 0)

\* C8: a failed final push is reported by an error event and no "Branch
\* pushed" success event is emitted; run still returns its report, with the
\* status the outcomes determine.
C8_PushFailureReported ==
    (pc = "done" /\ FinalPushFailed) =>
        /\ Emitted("error", "Failed to push branch")
        /\ ~Emitted("success", "Branch pushed")
        /\ response.status = generate_response(branch_name).status

LastPush == pushes[Len(pushes)]

C10_EmptyOutputOnTimeout ==
    (pc = "parse" /\ testOutcome \in {"local_timeout", "local_launch_error",
                                      "remote_call_failed", "remote_timed_out"})
        => test_output = <<>>

ClassificationRan == testRuns > 0 /\ pc \in {"fix", "iter_end", "loop", "sync",
                                            "test", "final", "report", "done"}

\* C11 as stated: the failure count of the report is the number of records
\* of the last classification of the run, 0 when that one was empty.
C11_FailuresOfLastClassification ==
    (pc = "done" /\ testRuns > 0) =>
        response.total_failures = Len(errors)

\* C11, amended: the failure count of the report is the number of records of
\* the last classification that was not empty, and 0 when there was none: a
\* non-empty classification sets the count, an empty one leaves it.
C11_FailuresOfLastNonEmpty ==
    /\ [][pc = "parse" =>
            total_failures' = IF errors' = <<>> THEN total_failures
                              ELSE Len(errors')]_vars
    /\ []((ClassificationRan /\ errors # <<>>) => total_failures = Len(errors))
    /\ []((iterations <= 1 /\ errors = <<>>) => total_failures = 0)
    /\ [](testRuns = 0 => total_failures = 0)
    /\ [](pc = "done" => response.total_failures = total_failures)

\* A report after an iteration that fixed its failures and one that found
\* none: the count is still the first iteration's.
C11_Witness ==
    /\ pc = "done"
    /\ errors = <<>>
    /\ iterations = 2
    /\ response.total_failures > 0

FixedAll == faults \cap {"dispatch", "commit", "fix_error"} = {}

\* C12: when every iteration before the last has fixed and committed all it
\* classified and the last one classifies nothing, the report has iterations
\* = k + 1 = the number of test executions, within the budget, total_fixes =
\* the number of Fixed outcomes, every outcome Fixed, and the status PASSED
\* when k >= 1.
C12_FixAllThenPass ==
    (pc = "done" /\ errors = <<>> /\ FixedAll) =>
        /\ response.iterations = testRuns
        /\ response.iterations <= max_retries
        /\ response.total_fixes = Len(FixedOutcomes)
        /\ \A i \in 1..Len(response.fixes) : response.fixes[i].status = "Fixed"
        /\ testRuns >= 2 => response.status = "PASSED"

\* One fixing iteration, then an iteration that finds nothing (k = 1).
C12_Witness ==
    /\ pc = "done"
    /\ errors = <<>>
    /\ FixedAll
    /\ testRuns = 2
    /\ Len(FixedOutcomes) >= 1
    /\ response.status = "PASSED"

\* C15: a failure of the progress sink never fails the run.
C15_SinkFailureHarmless == pc = "raised" => raised # "sink"

\* C19: in remote mode a test execution starts only after a successful push
\* made at the head of the iteration, with every commit of the run in it;
\* the first push is the one made right after the branch creation, before
\* any iteration and any commit.
C19_PushBeforeRemoteTest ==
    /\ (sandbox /\ pc \in {"test", "parse"}) =>
          /\ pushes # <<>>
          /\ LastPush.at = "loop"
          /\ LastPush.result = "ok"
          /\ LastPush.n = Len(commits)
    /\ (sandbox /\ pc \in {"loop", "sync", "test", "parse", "fix", "iter_end",
                           "final", "report", "done"}) =>
          /\ pushes # <<>>
          /\ pushes[1] = [at |-> "sandbox", result |-> "ok", n |-> 0]
    /\ (sandbox /\ testRuns > 0) => Len(pushes) > testRuns

\* A second remote test execution, after a commit.
C19_Witness ==
    /\ sandbox
    /\ pc = "parse"
    /\ testRuns = 2
    /\ Len(commits) >= 1

\* C20: apply_fix never raises: for every record kind and every way a rule
\* can end it returns, and it returns false when the rule raised; in a run,
\* a rule that raises gives a Failed outcome and the run goes on.
C20_ApplyFixNeverRaises ==
    /\ [](\A t \in ErrorTypes \cup {"UNKNOWN"}, rule \in RuleOutcomes :
            /\ ~apply_fix(t, rule).raised
            /\ rule = "raise" => ~apply_fix(t, rule).ret)
    /\ [](raised # "fixer")
    /\ [][("fix_error" \in faults' /\ "fix_error" \notin faults) =>
            /\ pc' \in {"fix", "iter_end"}
            /\ Len(fixes') = Len(fixes) + 1
            /\ fixes'[Len(fixes')].status = "Failed"
            /\ fixed_count' = fixed_count]_vars

\* A returned report of a run in which a fixer rule raised.
C20_Witness ==
    /\ pc = "done"
    /\ "fix_error" \in faults
    /\ \E i \in 1..Len(fixes) : fixes[i].status = "Failed"

\* A name with the whitespace at its two ends dropped, one character at a
\* time.
RECURSIVE LTrim(_)
LTrim(s) == IF s # <<>> /\ s[1] \in Whitespace THEN LTrim(Tail(s)) ELSE s
RECURSIVE RTrim(_)
RTrim(s) ==
    IF s # <<>> /\ s[Len(s)] \in Whitespace
    THEN RTrim(SubSeq(s, 1, Len(s) - 1)) ELSE s

\* The upper-case form of each lower-case letter.
ToUpper ==
    [a |-> "A", b |-> "B", c |-> "C", d |-> "D", e |-> "E", f |-> "F",
     g |-> "G", h |-> "H", i |-> "I", j |-> "J", k |-> "K", l |-> "L",
     m |-> "M", n |-> "N", o |-> "O", p |-> "P", q |-> "Q", r |-> "R",
     s |-> "S", t |-> "T", u |-> "U", v |-> "V", w |-> "W", x |-> "X",
     y |-> "Y", z |-> "Z"]

\* A component of the branch name as the claim describes it.
Component(name) ==
    LET t == RTrim(LTrim(name))
    IN  [i \in 1..Len(t) |->
            IF t[i] = " " THEN "_"
            ELSE IF t[i] \in DOMAIN ToUpper THEN ToUpper[t[i]]
            ELSE t[i]]

\* C16: for every team and leader the branch name is TEAM_LEADER_AI_FIX,
\* each component trimmed, with its spaces turned into underscores and
\* upper-cased; "Core Infra" and "ana lee" give CORE_INFRA_ANA_LEE_AI_FIX;
\* and create_branch returns that name when its first checkout succeeds.
C16_BranchNameFormat ==
    /\ format_branch_name(gTeam, gLeader) =
          Component(gTeam) \o <<"_">> \o Component(gLeader)
              \o <<"_", "A", "I", "_", "F", "I", "X">>
    /\ format_branch_name(Team, Leader) =
          <<"C", "O", "R", "E", "_", "I", "N", "F", "R", "A", "_",
            "A", "N", "A", "_", "L", "E", "E", "_", "A", "I", "_",
            "F", "I", "X">>
    /\ gPc = "done" => gReturned = format_branch_name(gTeam, gLeader)
    /\ gPc = "raised" => ~valid_ref(format_branch_name(gTeam, gLeader))

\* A branch created for a team name with blanks at both ends and inside.
C16_Witness ==
    /\ gPc = "done"
    /\ gTeam = <<" ", "a", " ">>
    /\ gLeader = <<"a", " ", "a">>
    /\ gReturned = <<"A", "_", "A", "_", "A", "_", "A", "I", "_", "F", "I", "X">>

GitX == format_branch_name(gTeam, gLeader)

\* No checkout of create_branch failed for a reason other than the branches.
OnlyCollisions ==
    /\ valid_ref(GitX)
    /\ \A i \in 1..Len(gCheckouts) :
          \/ gCheckouts[i] = "ok"
          \/ /\ gCheckouts[i] = "git_error"
             /\ i # 2
             /\ (IF i = 1 THEN GitX ELSE unique_branch(GitX)) \in gBranches

\* C17: a collision never aborts: when the branch exists, create_branch
\* checks it out and returns its name; when the first two checkouts fail it
\* creates and returns the name with the timestamp suffix; the name returned
\* is always the branch checked out; and create_branch raises only after a
\* checkout failed for a reason other than a branch that exists.
C17_CollisionNeverAborts ==
    /\ gPc = "done" =>
          /\ gReturned = gHead
          /\ gReturned \in gBranches
          /\ Len(gCheckouts) \in 1..3
          /\ gCheckouts[Len(gCheckouts)] = "ok"
          /\ gReturned = IF Len(gCheckouts) = 3 THEN unique_branch(GitX)
                         ELSE GitX
    /\ gRaised = "branch" => ~OnlyCollisions
    /\ (gPc \in {"done", "raised"} /\ gRaised \notin {"clean", "still_exists",
                                                     "clone"}
          /\ gCheckouts # <<>> /\ gCheckouts[1] = "git_error"
          /\ Len(gCheckouts) >= 2 /\ gCheckouts[2] = "ok") =>
          gPc = "done" /\ gReturned = GitX

\* The default branch of the clone already has the formatted name: the first
\* checkout fails, the second one reuses the branch.
C17_Witness ==
    /\ gPc = "done"
    /\ gCheckouts = <<"git_error", "ok">>
    /\ gReturned = GitX
    /\ Cardinality(gBranches) = 1

\* C18: Repo.clone_from is only ever called with nothing at the target path;
\* an existing directory gets at most max_attempts calls of rmtree; and when
\* it is still there afterwards clone_repo raises with no clone made and
\* self.repo unset.
C18_NoStaleCheckout ==
    /\ \A i \in 1..Len(gCloneCalls) : gCloneCalls[i] = "absent"
    /\ Len(gCloneCalls) <= 1
    /\ gRmCalls <= max_attempts
    /\ gRaised \in {"clean", "still_exists"} =>
          /\ gCloneCalls = <<>>
          /\ ~gRepo
          /\ gPath = "stale"
    /\ (gPath = "stale" /\ gPc \notin {"clone_start", "rmtree", "verify"}) =>
          gRaised \in {"clean", "still_exists"}
    /\ gRepo => gPath = "fresh"

\* Three calls of rmtree that all raised.
C18_Witness ==
    /\ gRaised = "clean"
    /\ gRmCalls = max_attempts
    /\ gPath = "stale"

\* C13: when a call of _run_tests has ended, its heartbeat thread has
\* terminated and emits no notification afterwards.
C13_HeartbeatEndsWithCall ==
    \A i \in 1..hbCall :
        hbExit[i] # "running" => (hbThread[i] = "done" /\ hbLate[i] = 0)

\* C14: however a call of _run_tests ends, its flag is cleared; a heartbeat
\* thread emits at most one notification per step of elapsed time, twelve
\* in all; and every heartbeat thread eventually terminates.
C14_HeartbeatCleanup ==
    /\ [](\A i \in 1..hbCall :
            /\ hbExit[i] # "running" => ~hbFlag[i]
            /\ hbSent[i] * HeartbeatStep <= hbElapsed[i]
            /\ hbElapsed[i] <= HeartbeatCeiling
            /\ hbSent[i] <= 12)
    /\ \A i \in 1..MaxCalls :
          [](hbCall >= i => <>(hbCall >= i /\ hbThread[i] = "done"))

\* A call that ended through the except branch after twelve notifications.
C14_Witness ==
    /\ hbCall >= 1
    /\ hbExit[1] = "raised"
    /\ hbSent[1] = 12
    /\ hbThread[1] = "done"

\* C28: the status does not follow the health of the suite: a run that used
\* its whole budget and whose last test execution classified failures, all
\* of them (and all earlier ones) fixed, reports PASSED; a run whose first
\* test execution classifies nothing reports FAILED, with no outcome.
C28_StatusNotSuiteHealth ==
    pc = "done" =>
        /\ ( /\ testRuns > 0
             /\ errors # <<>>
             /\ iterations = max_retries
             /\ fixes # <<>>
             /\ \A i \in 1..Len(fixes) : fixes[i].status = "Fixed" )
              => response.status = "PASSED"
        /\ (testRuns = 1 /\ errors = <<>>)
              => (response.status = "FAILED" /\ response.fixes = <<>>)

\* A PASSED report of a run whose last test execution, the second of a
\* budget of two, classified a failure.
C28_Witness ==
    /\ pc = "done"
    /\ max_retries = 2
    /\ testRuns = 2
    /\ errors # <<>>
    /\ response.status = "PASSED"

\* A FAILED report of a run whose first test execution classified nothing.
C28_FirstRunClean ==
    /\ pc = "done"
    /\ testRuns = 1
    /\ errors = <<>>
    /\ response.status = "FAILED"


\* C27: a request whose header is missing or differs from the service's
\* secret runs no command and is answered 401, whatever the secret is.
C27_ChannelAuthenticated ==
    (sbPc # "off" /\ (sbHeader = None \/ sbHeader # sbSecret)) =>
        /\ sbCmds = <<>>
        /\ sbPc = "done" => sbResp.http = 401


-----------------------------------------------------------------------------
(* Properties of apply_fix (SpecFix).                                       *)

\* The files of the repository before and after the k-th dispatch.
FilesBefore(k) == fxHist[k]
FilesAfter(k) == IF k < Len(fxHist) THEN fxHist[k + 1] ELSE fxFiles
LinesBefore(k) == read(FilesBefore(k), FixFile)
LinesAfter(k) == read(FilesAfter(k), FixFile)

\* C21: whenever apply_fix returns False, whatever the kind, the message and
\* the line number of the record, the file of the record and every other file
\* are exactly what they were before the call.
C21_FalseLeavesFiles ==
    \A k \in 1..Len(fxRet) : ~fxRet[k] => FilesAfter(k) = FilesBefore(k)

\* A False that comes from the except clause: the record has line 0, the file
\* is empty, and lines[-1] raised in _initialize_variable.
C21_Witness ==
    /\ Len(fxRet) >= 1
    /\ ~fxRet[1]
    /\ fxError.type = "LOGIC"
    /\ fxError.message = "name 'v' is not defined"
    /\ fxError.line = 0
    /\ exists(FilesBefore(1), FixFile)
    /\ LinesBefore(1) = <<>>
    /\ fxFiles = FilesBefore(1)

\* A False of a rule that looked at an existing line and declined.
C21_Declined ==
    /\ Len(fxRet) >= 1
    /\ ~fxRet[1]
    /\ fxError.type = "SYNTAX"
    /\ exists(FilesBefore(1), FixFile)
    /\ fxError.line \in 1..Len(LinesBefore(1))

\* C22: dispatch is idempotent-safe for every rule: after a dispatch of a
\* record has returned True, a second dispatch of the same record on the
\* resulting file either returns False or leaves the file contents unchanged.
C22_IdempotentSafe ==
    (Len(fxRet) = 2 /\ fxRet[1]) =>
        (~fxRet[2] \/ FilesAfter(2) = FilesBefore(2))

\* The record of the first dispatch names a line of the file it was given.
OnLine ==
    /\ Len(fxRet) >= 1
    /\ exists(FilesBefore(1), FixFile)
    /\ fxError.line \in 1..Len(LinesBefore(1))

\* The lines of the record's file after the first dispatch are those before
\* it, with line L replaced by text.
OnlyLineBecomes(L, text) ==
    /\ exists(FilesAfter(1), FixFile)
    /\ Len(LinesAfter(1)) = Len(LinesBefore(1))
    /\ \A i \in 1..Len(LinesBefore(1)) :
          LinesAfter(1)[i] = IF i = L THEN text ELSE LinesBefore(1)[i]
    /\ FilesAfter(1)[OtherFile] = FilesBefore(1)[OtherFile]

\* A conditional "if <name> = <value>:" with one "=".
IsIfAssign(line) ==
    LET code  == str_strip(line)
        parts == split(code, " = ")
    IN  /\ startswith(code, "if ")
        /\ endswith(code, ":")
        /\ count(code, "=") = 1
        /\ Len(parts) = 2
        /\ Len(parts[1]) > 3
        /\ WordRun(parts[1], 4) = Len(parts[1]) - 3
        /\ Len(parts[2]) > 1

\* C23: for a Syntax record whose message contains "invalid syntax" and whose
\* line is a conditional "if <name> = <value>:", dispatch rewrites exactly
\* that line so that the single "=" becomes "==", changes no other line, and
\* returns True.
C23_IfAssignBecomesComparison ==
    ( /\ OnLine
      /\ fxError.type = "SYNTAX"
      /\ contains(fxError.message, "invalid syntax")
      /\ IsIfAssign(LinesBefore(1)[fxError.line]) )
        => /\ fxRet[1]
           /\ OnlyLineBecomes(fxError.line,
                  replace(LinesBefore(1)[fxError.line], " = ", " == "))

\* "if x = 5:" on line 2 has become "if x == 5:", under a line left alone.
C23_Witness ==
    /\ Len(fxRet) = 1
    /\ fxError.type = "SYNTAX"
    /\ fxError.message = "invalid syntax"
    /\ fxError.line = 2
    /\ LinesBefore(1) = <<"def f():\n", "if x = 5:\n">>
    /\ fxRet[1]
    /\ read(fxFiles, FixFile) = <<"def f():\n", "if x == 5:\n">>

\* The module an Import record reports missing.
MissingModule == between(fxError.message, "No module named '", "'")

\* line is an import statement of module M.
ImportsModule(line, M) ==
    \/ str_strip(line) = "import " \o M
    \/ startswith(str_strip(line), "import " \o M \o " ")
    \/ startswith(str_strip(line), "import " \o M \o ".")
    \/ startswith(str_strip(line), "from " \o M \o " ")
    \/ startswith(str_strip(line), "from " \o M \o ".")

\* C24: for an Import record whose message reports a missing module M,
\* dispatch comments out the import line of M by prefixing it with "# ",
\* leaves every other line unchanged and returns True; imports of other
\* modules are never commented out.
C24_ImportOfMissingModuleCommented ==
    ( /\ Len(fxRet) >= 1
      /\ fxError.type = "IMPORT"
      /\ MissingModule.ok
      /\ exists(FilesBefore(1), FixFile) )
        => /\ Len(LinesAfter(1)) = Len(LinesBefore(1))
           /\ \A i \in 1..Len(LinesBefore(1)) :
                 LinesAfter(1)[i] # LinesBefore(1)[i] =>
                     ImportsModule(LinesBefore(1)[i], MissingModule.text)
           /\ (\E i \in 1..Len(LinesBefore(1)) :
                    ImportsModule(LinesBefore(1)[i], MissingModule.text))
                 => /\ fxRet[1]
                    /\ \E i \in 1..Len(LinesBefore(1)) :
                          /\ ImportsModule(LinesBefore(1)[i],
                                           MissingModule.text)
                          /\ OnlyLineBecomes(i, "# " \o LinesBefore(1)[i])

\* The symbol an Import record reports as not importable.
UnresolvedSymbol == between(fxError.message, "cannot import name '", "'")

\* The symbols a "from ... import ..." line imports, and the line with only
\* the symbols of rest.
ImportedSymbols(line) ==
    LET names == split(split(line, "import")[2], ",")
    IN  [k \in 1..Len(names) |-> str_strip(names[k])]
ImportLineOf(line, rest) ==
    split(line, "import")[1] \o "import " \o join(", ", rest) \o "\n"

\* C25: for an Import record reporting an unresolvable imported symbol S,
\* dispatch removes only S from the import list of the "from ... import ..."
\* line and keeps every other imported symbol of that line; the whole line
\* is commented out only when S was its only symbol.
C25_OnlySymbolRemoved ==
    ( /\ Len(fxRet) >= 1
      /\ fxError.type = "IMPORT"
      /\ UnresolvedSymbol.ok
      /\ fxRet[1] )
        => \A i \in 1..Len(LinesBefore(1)) :
              LinesAfter(1)[i] # LinesBefore(1)[i] =>
                  LET IsOther(n) == n # UnresolvedSymbol.text
                      rest == SelectSeq(ImportedSymbols(LinesBefore(1)[i]),
                                        IsOther)
                  IN  /\ startswith(LinesBefore(1)[i], "from ")
                      /\ LinesAfter(1)[i] =
                             IF rest = <<>> THEN "# " \o LinesBefore(1)[i]
                             ELSE ImportLineOf(LinesBefore(1)[i], rest)

\* The diagnostics the rules recognise and decline.
Declined ==
    LET low == lower(fxError.message)
    IN  \/ /\ fxError.type = "TYPE_ERROR"
           /\ \/ contains(low, "missing")
                 /\ contains(low, "required positional argument")
              \/ contains(low, "unsupported operand type")
        \/ /\ fxError.type = "IMPORT"
           /\ contains(low, "attempted relative import")
        \/ /\ fxError.type = "LOGIC"
           /\ \/ contains(low, "has no attribute")
              \/ contains(low, "division by zero")
              \/ contains(low, "index out of range")
        \/ /\ fxError.type = "LINTING"
           /\ contains(low, "unused variable")

\* C26: the recognised-but-declined diagnostics always yield False with the
\* file untouched: TypeError "missing required positional argument" and
\* "unsupported operand type", Import "attempted relative import", Logic
\* "has no attribute", "division by zero" and "index out of range", and
\* Linting "unused variable".
C26_DeclinedDiagnostics ==
    Declined =>
        \A k \in 1..Len(fxRet) :
            ~fxRet[k] /\ FilesAfter(k) = FilesBefore(k)

\* An "unsupported operand type" record on a line with a "+" that
\* _fix_string_concatenation would rewrite, declined.
C26_Witness ==
    /\ OnLine
    /\ fxError.type = "TYPE_ERROR"
    /\ contains(fxError.message, "unsupported operand type")
    /\ LinesBefore(1)[fxError.line] = "    n = 'a' + n\n"
    /\ ~fxRet[1]
    /\ fxFiles = FilesBefore(1)

\* C29: for a Syntax record "expected an indented block" at line L whose
\* previous line ends with ":", dispatch inserts a pass statement indented 4
\* spaces deeper than the previous line and preserves every line that was
\* in the file: the file grows by one line and the former line L is still
\* there.
C29_PassInserted ==
    ( /\ OnLine
      /\ fxError.type = "SYNTAX"
      /\ contains(fxError.message, "expected an indented block")
      /\ fxError.line > 1
      /\ endswith(rstrip(LinesBefore(1)[fxError.line - 1]), ":") )
        => /\ fxRet[1]
           /\ LinesAfter(1) =
                  SubSeq(LinesBefore(1), 1, fxError.line - 1)
                      \o <<Spaces(indent_of(LinesBefore(1)[fxError.line - 1])
                                      + 4) \o "pass\n">>
                      \o SubSeq(LinesBefore(1), fxError.line,
                                Len(LinesBefore(1)))

\* The indentation of a line: the blanks and tabs it starts with.
RECURSIVE Indentation(_)
Indentation(line) ==
    IF line # "" /\ Head(line) \in {" ", "\t"}
    THEN Head(line) \o Indentation(Tail(line))
    ELSE ""

\* C30: for a Logic record "name 'v' is not defined" at line L with
\* 1 <= L <= number of lines, dispatch inserts exactly one line
\* "v = None  # AI-AGENT: Auto-initialized", with the indentation of line L,
\* immediately before line L: the new line is at position L, the former
\* line L at L + 1, all other lines keep their content and order, and
\* dispatch returns True.
C30_InitialisationInserted ==
    ( /\ OnLine
      /\ fxError.type = "LOGIC"
      /\ fxError.message = "name 'v' is not defined" )
        => /\ fxRet[1]
           /\ LinesAfter(1) =
                  SubSeq(LinesBefore(1), 1, fxError.line - 1)
                      \o <<Indentation(LinesBefore(1)[fxError.line])
                               \o "v = None  # AI-AGENT: Auto-initialized\n">>
                      \o SubSeq(LinesBefore(1), fxError.line,
                                Len(LinesBefore(1)))

\* The same on the lines that are indented with blanks only and hold code.
C30_OnBlankIndentedLines ==
    ( /\ OnLine
      /\ fxError.type = "LOGIC"
      /\ fxError.message = "name 'v' is not defined"
      /\ ~contains(Indentation(LinesBefore(1)[fxError.line]), "\t")
      /\ str_strip(LinesBefore(1)[fxError.line]) # "" )
        => /\ fxRet[1]
           /\ LinesAfter(1) =
                  SubSeq(LinesBefore(1), 1, fxError.line - 1)
                      \o <<Indentation(LinesBefore(1)[fxError.line])
                               \o "v = None  # AI-AGENT: Auto-initialized\n">>
                      \o SubSeq(LinesBefore(1), fxError.line,
                                Len(LinesBefore(1)))

\* The first dispatch is an Indentation record at a non-blank line L > 1.
IndentCase ==
    /\ OnLine
    /\ fxError.type = "INDENTATION"
    /\ fxError.line > 1
    /\ str_strip(LinesBefore(1)[fxError.line]) # ""

\* The previous line opens a block: it ends with ":".
OpensBlock(prev) == endswith(rstrip(prev), ":")

\* C31: for an Indentation record at a non-blank line L > 1: if the previous
\* line does not end with ":" and line L's indent is smaller than the
\* previous line's, line L's indent is raised to exactly the previous line's
\* indent (its count of leading whitespace characters); if the previous line
\* ends with ":", line L's indent becomes the previous indent plus 4; in
\* every other case the indentation of line L is left as it is.
C31_IndentationRule ==
    IndentCase =>
        LET prev == LinesBefore(1)[fxError.line - 1]
            old  == LinesBefore(1)[fxError.line]
            new  == LinesAfter(1)[fxError.line]
        IN  IF OpensBlock(prev)
            THEN indent_of(new) = indent_of(prev) + 4
            ELSE IF indent_of(old) < indent_of(prev)
            THEN indent_of(new) = indent_of(prev)
            ELSE Indentation(new) = Indentation(old)

\* Line L with every tab written as four blanks.
RECURSIVE Untabbed(_)
Untabbed(line) ==
    IF line = "" THEN ""
    ELSE (IF Head(line) = "\t" THEN "    " ELSE Head(line))
             \o Untabbed(Tail(line))

\* C31 as the code has it: the tabs of line L are first written as four
\* blanks each, and the three cases are those of the claim on the line so
\* rewritten; in the last case the line stays as the tab rewriting left it.
C31_IndentationRuleAfterTabs ==
    IndentCase =>
        LET prev == LinesBefore(1)[fxError.line - 1]
            old  == Untabbed(LinesBefore(1)[fxError.line])
        IN  OnlyLineBecomes(fxError.line,
                IF OpensBlock(prev)
                THEN Spaces(indent_of(prev) + 4) \o lstrip(old)
                ELSE IF indent_of(old) < indent_of(prev)
                THEN Spaces(indent_of(prev)) \o lstrip(old)
                ELSE old)

\* An under-indented line raised to the indent of the line before it.
C31_Witness ==
    /\ Len(fxRet) = 1
    /\ fxError.type = "INDENTATION"
    /\ fxError.line = 2
    /\ LinesBefore(1) = <<"    n = 'a' + n\n", "x = v\n">>
    /\ fxRet[1]
    /\ read(fxFiles, FixFile) = <<"    n = 'a' + n\n", "    x = v\n">>

\* A line under a block header set to the header's indent plus 4, its tab
\* gone.
C31_UnderHeader ==
    /\ Len(fxRet) = 1
    /\ fxError.type = "INDENTATION"
    /\ fxError.line = 2
    /\ LinesBefore(1) = <<"def f():\n", "\tprint v\n">>
    /\ read(fxFiles, FixFile) = <<"def f():\n", "    print v\n">>

\* C33: for every record kind, a dispatch whose line number is outside
\* 1..(number of lines of the file), the unknown line 0 included, returns
\* False and leaves the file unchanged.
C33_LineOutOfRangeDeclined ==
    ( /\ Len(fxRet) >= 1
      /\ exists(FilesBefore(1), FixFile)
      /\ fxError.line \notin 1..Len(LinesBefore(1)) )
        => (~fxRet[1] /\ FilesAfter(1) = FilesBefore(1))

\* The same for the rules that test both ends of the range, those of the
\* Syntax and Indentation kinds.
C33_RangeTested ==
    ( /\ Len(fxRet) >= 1
      /\ fxError.type \in {"SYNTAX", "INDENTATION"}
      /\ exists(FilesBefore(1), FixFile)
      /\ fxError.line \notin 1..Len(LinesBefore(1)) )
        => (~fxRet[1] /\ FilesAfter(1) = FilesBefore(1))

\* A Logic record with the unknown line 0: the initialisation is inserted
\* before the last line of the file.
C33_LineZeroEdits ==
    /\ Len(fxRet) = 1
    /\ fxError.type = "LOGIC"
    /\ fxError.line = 0
    /\ LinesBefore(1) = <<"def f():\n", "x = v\n">>
    /\ fxRet[1]
    /\ read(fxFiles, FixFile) =
          <<"def f():\n", "v = None  # AI-AGENT: Auto-initialized\n",
            "x = v\n">>

\* C34: every dispatch that returns True has changed the contents of the
\* target file, so that every Fixed outcome and every commit of the run
\* corresponds to a real edit.
C34_TrueMeansEdited ==
    \A k \in 1..Len(fxRet) :
        fxRet[k] => FilesAfter(k)[FixFile] # FilesBefore(k)[FixFile]

\* A trailing-whitespace record on a line that has none: True, and the file
\* is what it was.
C34_TrueWithoutEdit ==
    /\ Len(fxRet) = 1
    /\ fxError.type = "LINTING"
    /\ fxError.message = "trailing whitespace"
    /\ fxError.line = 1
    /\ LinesBefore(1) = <<"x = v\n">>
    /\ fxRet[1]
    /\ fxFiles = FilesBefore(1)

-----------------------------------------------------------------------------
(* Properties of the fix loop of one iteration (SpecIter).                   *)

\* The first dispatch of the iteration returned True and inserted or deleted
\* a line at or above the line of the second record.
EarlierEditAbove ==
    /\ Len(fxRet) = 2
    /\ fxRet[1]
    /\ \/ /\ Len(LinesAfter(1)) = Len(LinesBefore(1)) + 1
          /\ itErrors[1].line <= itErrors[2].line
       \/ /\ Len(LinesAfter(1)) = Len(LinesBefore(1)) - 1
          /\ itErrors[1].line < itErrors[2].line

\* C32: within one iteration line numbers are never re-resolved.  The records
\* keep the lines of the classification, and after an earlier fix has
\* inserted or deleted a line at or above the line L of a later record, the
\* later dispatch works at index L of the file as the earlier fix left it:
\* the lines before index L and the lines after index L are kept, an index
\* beyond the end of the file is declined, and the line the diagnostic
\* referred to, which has moved to L + 1 or L - 1, is not the line at L.
C32_LinesNotReResolved ==
    /\ \A k \in 1..Len(itFixes) :
          \E j \in 1..Len(itErrors) : itFixes[k].line = itErrors[j].line
    /\ EarlierEditAbove =>
          LET L      == itErrors[2].line
              before == LinesBefore(1)
              mid    == LinesAfter(1)
              after  == LinesAfter(2)
              moved  == Len(mid) - Len(before)
              kept   == Len(mid) - L
          IN  /\ moved \in {1, -1}
              /\ (L + moved \in 1..Len(mid)) => mid[L + moved] = before[L]
              /\ L > Len(mid) => (~fxRet[2] /\ after = mid)
              /\ L <= Len(mid) =>
                    /\ SubSeq(after, 1, L - 1) = SubSeq(mid, 1, L - 1)
                    /\ Len(after) >= L - 1 + kept
                    /\ SubSeq(after, Len(after) - kept + 1, Len(after))
                           = SubSeq(mid, L + 1, Len(mid))

\* The second dispatch has edited index L although the line of its diagnostic
\* had moved below it.
C32_Witness ==
    /\ EarlierEditAbove
    /\ fxRet[2]
    /\ itErrors[1].line < itErrors[2].line
    /\ LinesAfter(2) # LinesAfter(1)
    /\ LinesAfter(1)[itErrors[2].line] # LinesBefore(1)[itErrors[2].line]

\* The second dispatch is declined because the line its diagnostic referred to
\* is no longer at the reported index.
C32_DeclinedOnMovedLine ==
    /\ EarlierEditAbove
    /\ ~fxRet[2]
    /\ itErrors[2].type = "LINTING"
    /\ contains(LinesBefore(1)[itErrors[2].line], "import")

\* C36: each commit of the run contains only the edit of the fix it is
\* attributed to: the commit created for the record at position k holds the
\* files as that dispatch left them, and its parent holds the files as they
\* were before that dispatch, so that an edit whose own commit failed is in
\* no later commit.
C36_CommitHoldsOwnEditOnly ==
    \A p \in 2..Len(itLog) :
        LET k == itLog[p].of
        IN  /\ itLog[p].tree = FilesAfter(k)
            /\ itLog[p - 1].tree = FilesBefore(k)

\* The dispatch at position k edited the file and no commit was created for
\* it.
Uncommitted(k) ==
    /\ k <= Len(fxRet)
    /\ fxRet[k]
    /\ FilesAfter(k) # FilesBefore(k)
    /\ \A p \in 1..Len(itLog) : itLog[p].of # k

\* The commit of the second fix carries the edit of the first, which has no
\* commit and no outcome of its own.
C36_EarlierEditInLaterCommit ==
    /\ Uncommitted(1)
    /\ Len(itLog) = 2
    /\ itLog[2].of = 2
    /\ itLog[2].tree = FilesAfter(2)
    /\ itLog[1].tree = FilesBefore(1)
    /\ Len(itFixes) = 1
    /\ itFixes[1].status = "Fixed"
    /\ itFixes[1].line = itErrors[2].line

\* When every commit of the iteration succeeded, each commit holds the edit of
\* its own fix only.
C36_HoldsWhenCommitsSucceed ==
    (\A k \in 1..Len(fxRet) : ~Uncommitted(k)) => C36_CommitHoldsOwnEditOnly

-----------------------------------------------------------------------------
(* Properties of the heartbeat threads of consecutive calls (SpecHB).        *)

\* The heartbeat threads that have not terminated.
HeartbeatsAlive == {i \in 1..hbCall : hbThread[i] # "done"}

\* C35: at every moment of a run at most one heartbeat thread is alive, also
\* across consecutive calls of _run_tests: the thread of one call has
\* terminated before the next call starts its own.
C35_OneHeartbeatAlive ==
    /\ Cardinality(HeartbeatsAlive) <= 1
    /\ \A i \in 1..hbCall : i < hbCall => hbThread[i] = "done"

\* The second call is running with its own heartbeat while the thread of the
\* first call, which has returned, is still in its sleep.
C35_TwoHeartbeatsAlive ==
    /\ hbCall = 2
    /\ hbExit[1] = "returned"
    /\ hbExit[2] = "running"
    /\ hbThread[1] = "sleep"
    /\ hbThread[2] \in {"sleep", "emit"}

\* At most one flag is set at a time, and a thread whose call has ended
\* emits at most one notification more.
C35_OneFlagSet ==
    /\ Cardinality({i \in 1..hbCall : hbFlag[i]}) <= 1
    /\ \A i \in 1..hbCall : hbLate[i] <= 1

=============================================================================
